---- MODULE Spec2Model ----
(***************************************************************************)
(* Model of dbus-launch-rs: the launch of a dbus-daemon / dbus-broker      *)
(* child (src/src/process.rs, src/src/pipe.rs, src/src/sys.rs) and the     *)
(* lifecycle of the Daemon that owns it (src/src/lib.rs).                  *)
(*                                                                         *)
(* One parent process runs NThreads threads, each performing one launch.   *)
(* The threads share the parent's descriptor table pfd; every fork copies  *)
(* it into the private table of the new child.  A step of the model is one *)
(* system call that other threads or processes can observe.  The steps a   *)
(* forked child takes before exec touch only its private table and are one *)
(* step (try_exec).                                                        *)
(***************************************************************************)
EXTENDS Integers, Sequences, FiniteSets, TLC

\* ------------------------------------------------------------------ bounds

\* Number of threads of the parent, each performing one launch.
NThreads == 2
\* Soft RLIMIT_NOFILE of the parent: descriptors are numbered 0..FdLimit-1.
FdLimit == 9
\* Longest timeout, in ticks, handed to try_wait_timeout by a caller
\* other than Drop.
MaxTimeout == 3
\* Resolution of the clock: ticks per second.
TicksPerSec == 2
\* Entries of the pollfd array of close_on_exec_from (512 in the source).
PollBatch == 3

\* ------------------------------------------------------ program constants

\* errno values (Linux).
ENOENT == 2
ESRCH == 3
EINTR == 4
ECHILD == 10
EAGAIN == 11
EBADF == 9
EINVAL == 22
EMFILE == 24
ENOMEM == 12
\* The hand-off slot: --print-address=3 / LISTEN_FDS=1.
Slot == 3
\* Lowest number F_DUPFD_CLOEXEC may return for the error channel's write end.
DupMin == 4
\* Width of the error channel's message in bytes.
MsgLen == 4
\* Grace period of Drop for Daemon, in seconds.
GraceSecs == 10

Threads == 1..NThreads
Fds == 0..(FdLimit - 1)
NoFd == -1

\* ------------------------------------------------------------- descriptors

\* An open file description: <<kind, launch, end>>.
Stdio(n) == <<"stdio", n, "rw">>
Extra(n) == <<"extra", n, "rw">>
AddrR(t) == <<"addr", t, "r">>
AddrW(t) == <<"addr", t, "w">>
ErrR(t) == <<"err", t, "r">>
ErrW(t) == <<"err", t, "w">>
Sock(t) == <<"sock", t, "rw">>

\* A descriptor table maps the open numbers to [obj, cx]; cx is FD_CLOEXEC.
NoTable == [n \in {} |-> 0]

Entry(obj, cx) == [obj |-> obj, cx |-> cx]

OpenAt(tbl, fd, obj, cx) ==
    [n \in (DOMAIN tbl) \cup {fd} |-> IF n = fd THEN Entry(obj, cx) ELSE tbl[n]]

\* close(fd): EBADF on a closed number changes nothing.
CloseFd(tbl, fd) == [n \in (DOMAIN tbl) \ {fd} |-> tbl[n]]

\* The lowest free number >= min, NoFd when the table is full (EMFILE).
LowestFree(tbl, min) ==
    LET free == {n \in Fds : n >= min /\ n \notin DOMAIN tbl}
    IN  IF free = {} THEN NoFd
        ELSE CHOOSE n \in free : \A m \in free : n <= m

HoldsObj(tbl, obj) == \E n \in DOMAIN tbl : tbl[n].obj = obj

\* ------------------------------------------------------------------- state

VARIABLES
    pfd,      \* the parent's descriptor table, shared by its threads
    th,       \* per thread: position and the locals of launch/spawn
    res,      \* per thread: what launch() returned
    hd,       \* per thread: the Process handle, [pid, exit_status]
    ch,       \* per launch: the forked child as the OS sees it
    errbuf,   \* per launch: bytes in the error channel
    addrbuf,  \* per launch: bytes in the address channel
    faults,   \* whether the host process interrupts or steals waits
    penv,     \* the parent's environment, a sequence of <<name, value>>
    hyg,      \* a close_on_exec_from call on its own: input and results
    esc,      \* an escape_path call on its own: the path and the result
    ret,      \* per thread: what the last call on the handle returned and did
    dlog      \* per thread: the calls Drop for Daemon has made so far

vars == <<pfd, th, res, hd, ch, errbuf, addrbuf, faults, penv, hyg, esc, ret, dlog>>

\* How a launch is configured: Launcher::daemon() / Launcher::broker(), and
\* whether the program can be exec'ed.
Kinds == {"daemon", "broker"}
Progs == {"present", "missing"}

\* Descriptor tables a parent may start with: the standard streams, with or
\* without two pre-opened descriptors that are not close-on-exec, or nothing
\* open at all (a caller that closed its standard streams).
StdTable == [n \in 0..2 |-> Entry(Stdio(n), FALSE)]
ExtraTable == [n \in 0..4 |-> IF n <= 2 THEN Entry(Stdio(n), FALSE)
                                        ELSE Entry(Extra(n), FALSE)]
InitTables == {StdTable, ExtraTable, NoTable}

NoChild == [st |-> "none", pid |-> 0, fds |-> NoTable, code |-> 0,
            status |-> "unset", sigs |-> {}, said |-> FALSE, lpid |-> 0,
            execfds |-> {}, env |-> <<>>, did |-> <<>>]
NoHandle == [pid |-> 0, exit_status |-> "unset"]

\* What a close_on_exec_from call returns and has done: the Result, the
\* table it leaves, the numbers it probed in order, and the sizes of the
\* batches it polled.
NoOut == [ok |-> TRUE, errno |-> 0, tbl |-> NoTable, probes |-> <<>>,
          batches |-> <<>>]
\* The largest c_int.
IntMax == 2147483647

\* A soft limit (rlim_t, 64 bits without sign): bits 32 to 63 ("zero", a
\* nonzero pattern "some", or all "ones"), bit 31, and bits 0 to 30.
RLim(high, bit31, low) == [high |-> high, bit31 |-> bit31, low |-> low]

\* RLIM_INFINITY: all 64 bits set.
RLIM_INFINITY == RLim("ones", TRUE, IntMax)

\* `as c_int` on an rlim_t: the low 32 bits, read as two's complement.
AsCInt(r) == IF r.bit31 THEN (r.low - IntMax) - 1 ELSE r.low

\* An rlim_t that keeps the limit whole: its value is within c_int.
FitsCInt(r) == r.high = "zero" /\ ~r.bit31

\* No escape_path call.
NoEsc == [stage |-> "none", path |-> <<>>, out |-> <<>>]

NoHyg == [stage |-> "none", min |-> 0, tbl |-> NoTable, ran |-> {},
          gone |-> {}, rlim |-> RLim("zero", FALSE, FdLimit),
          out |-> NoOut, lin |-> NoOut]
NoResult == [tag |-> "none", code |-> 0, addr |-> <<>>]
NoRet == [op |-> "none", tag |-> "none", status |-> "unset", code |-> 0,
          sys |-> <<>>, slept |-> 0, seq |-> 0,
          pop |-> "none", ptag |-> "none", pstatus |-> "unset"]

NewThread(k, p) ==
    [pc |-> "start", kind |-> k, prog |-> p,
     ar |-> NoFd, aw |-> NoFd, sock |-> NoFd, er |-> NoFd, ew |-> NoFd,
     closeq |-> <<>>, after |-> "none", err |-> 0, left |-> 0, slept |-> 0,
     fault |-> "none"]

\* The process id of the parent.
ParentPid == 100

\* The decimal digits of n, as `{}` formats an integer.
RECURSIVE Dec(_)
Dec(n) == IF n < 10 THEN <<n>> ELSE Dec(n \div 10) \o <<n % 10>>

\* Environments of the parent: one without socket-activation variables and
\* one that was itself started with them.
CleanEnv == << <<"PATH", <<>>>> >>
InheritedEnv ==
    << <<"LISTEN_PID", Dec(ParentPid)>>, <<"PATH", <<>>>>, <<"LISTEN_FDS", <<2>>>> >>
ParentEnvs == {<<>>, CleanEnv, InheritedEnv}

Init ==
    /\ pfd \in InitTables
    /\ \E k \in Kinds : th \in [Threads -> {NewThread(k, p) : p \in Progs}]
    /\ res = [t \in Threads |-> NoResult]
    /\ hd = [t \in Threads |-> NoHandle]
    /\ ch = [t \in Threads |-> NoChild]
    /\ errbuf = [t \in Threads |-> <<>>]
    /\ addrbuf = [t \in Threads |-> <<>>]
    /\ faults = FALSE
    /\ penv = InheritedEnv
    /\ hyg = NoHyg
    /\ esc = NoEsc
    /\ ret = [t \in Threads |-> NoRet]
    /\ dlog = [t \in Threads |-> <<>>]

\* Processes that hold descriptors: a child from fork until it exits.
Live == {"forked", "failing", "wrote", "running"}

\* Whether any process still holds a descriptor of the open file description.
Held(obj) ==
    \/ HoldsObj(pfd, obj)
    \/ \E u \in Threads : ch[u].st \in Live /\ HoldsObj(ch[u].fds, obj)

\* ---------------------------------------------------------- error channel

Byte(n, i) == (n \div (256 ^ i)) % 256

\* The same bytes, highest first.
ToBeBytes(code) == [i \in 1..MsgLen |-> Byte(code, MsgLen - i)]

\* u32::to_ne_bytes of (code as u32) on a little-endian build: the two's
\* complement bytes, lowest first.
ToNeBytes(code) == [i \in 1..MsgLen |-> Byte(code, i - 1)]

\* i32::from_ne_bytes.
FromNeBytes(b) ==
    b[1] + 256 * b[2] + 65536 * b[3]
      + 16777216 * (IF b[4] >= 128 THEN b[4] - 256 ELSE b[4])

\* -------------------------------------------------------- address channel

\* What a launched program may print to the hand-off slot before closing it.
Announcements == {<<" ">>, <<" ", "a", " ">>}

RECURSIVE TrimStart(_)
TrimStart(s) ==
    IF s /= <<>> /\ Head(s) = " " THEN TrimStart(Tail(s)) ELSE s

RECURSIVE TrimEnd(_)
TrimEnd(s) ==
    IF s /= <<>> /\ s[Len(s)] = " " THEN TrimEnd(SubSeq(s, 1, Len(s) - 1))
    ELSE s

\* The address as announced, whitespace included.
Untrimmed(s) == s

\* str::trim.
Trim(s) == TrimEnd(TrimStart(s))

\* ------------------------------------------------------- thread plumbing

Set(t, f) == [th EXCEPT ![t] = f]

\* A caller of spawn that drops only the write end of its address channel.
CallerDropsWriteEnd(t) ==
    IF th[t].kind = "daemon" THEN <<th[t].aw>> ELSE <<th[t].sock>>

\* The Pipes (and the listening socket) that the caller of spawn drops when
\* spawn returns an error: w then r in spawn_dbus_daemon, socket in launch.
CallerDrops(t) ==
    IF th[t].kind = "daemon" THEN <<th[t].aw, th[t].ar>> ELSE <<th[t].sock>>

\* Leave spawn (or its caller) with error `code`, dropping `locals` first.
Fail(t, tag, code, locals) ==
    IF locals = <<>>
    THEN /\ th' = Set(t, [th[t] EXCEPT !.pc = "done"])
         /\ res' = [res EXCEPT ![t] = [tag |-> tag, code |-> code, addr |-> <<>>]]
    ELSE /\ th' = Set(t, [th[t] EXCEPT !.pc = "closing", !.closeq = locals,
                                       !.after = tag, !.err = code])
         /\ UNCHANGED res

\* ------------------------------------------------------- launch: parent

\* pipe2(O_CLOEXEC): the two lowest free numbers, or EMFILE and nothing open.
Pipe_new(tbl, robj, wobj) ==
    LET r == LowestFree(tbl, 0)
        t1 == IF r = NoFd THEN tbl ELSE OpenAt(tbl, r, robj, TRUE)
        w == LowestFree(t1, 0)
    IN  IF r = NoFd \/ w = NoFd
        THEN [ok |-> FALSE, r |-> NoFd, w |-> NoFd, tbl |-> tbl]
        ELSE [ok |-> TRUE, r |-> r, w |-> w, tbl |-> OpenAt(t1, w, wobj, TRUE)]

\* spawn_dbus_daemon: the address channel.
PipeNewAddr(t) ==
    /\ th[t].pc = "start" /\ th[t].kind = "daemon"
    /\ LET p == Pipe_new(pfd, AddrR(t), AddrW(t))
       IN  IF p.ok
           THEN /\ pfd' = p.tbl
                /\ th' = Set(t, [th[t] EXCEPT !.pc = "spawn", !.ar = p.r, !.aw = p.w])
                /\ UNCHANGED res
           ELSE /\ Fail(t, "err", EMFILE, <<>>)
                /\ UNCHANGED pfd
    /\ UNCHANGED <<hd, ch, errbuf, addrbuf, faults, penv, hyg, esc, ret, dlog>>

\* launch, broker arm: UnixListener::bind gives a close-on-exec socket.
BindSocket(t) ==
    /\ th[t].pc = "start" /\ th[t].kind = "broker"
    /\ LET fd == LowestFree(pfd, 0)
       IN  IF fd /= NoFd
           THEN /\ pfd' = OpenAt(pfd, fd, Sock(t), TRUE)
                /\ th' = Set(t, [th[t] EXCEPT !.pc = "spawn", !.sock = fd])
                /\ UNCHANGED res
           ELSE /\ Fail(t, "err", EMFILE, <<>>)
                /\ UNCHANGED pfd
    /\ UNCHANGED <<hd, ch, errbuf, addrbuf, faults, penv, hyg, esc, ret, dlog>>

\* A spawn that forks without looking at the number of the write end.
PipeNewErrNoDup(t) ==
    /\ th[t].pc = "spawn"
    /\ LET p == Pipe_new(pfd, ErrR(t), ErrW(t))
       IN  IF p.ok
           THEN /\ pfd' = p.tbl
                /\ th' = Set(t, [th[t] EXCEPT !.pc = "fork", !.er = p.r, !.ew = p.w])
                /\ UNCHANGED res
           ELSE /\ Fail(t, "err", EMFILE, CallerDrops(t))
                /\ UNCHANGED pfd
    /\ UNCHANGED <<hd, ch, errbuf, addrbuf, faults, penv, hyg, esc, ret, dlog>>

\* spawn: Pipe::new() for the error channel, then the test of w against
\* the slot.
PipeNewErr(t) ==
    /\ th[t].pc = "spawn"
    /\ LET p == Pipe_new(pfd, ErrR(t), ErrW(t))
       IN  IF p.ok
           THEN /\ pfd' = p.tbl
                /\ th' = Set(t, [th[t] EXCEPT
                        !.pc = IF p.w <= Slot THEN "dupfd" ELSE "fork",
                        !.er = p.r, !.ew = p.w])
                /\ UNCHANGED res
           ELSE /\ Fail(t, "err", EMFILE, CallerDrops(t))
                /\ UNCHANGED pfd
    /\ UNCHANGED <<hd, ch, errbuf, addrbuf, faults, penv, hyg, esc, ret, dlog>>

\* Pipe::new as built for macOS, its first call: pipe() gives the two
\* lowest free numbers without close-on-exec.
pipe(tbl, robj, wobj) ==
    LET r == LowestFree(tbl, 0)
        t1 == IF r = NoFd THEN tbl ELSE OpenAt(tbl, r, robj, FALSE)
        w == LowestFree(t1, 0)
    IN  IF r = NoFd \/ w = NoFd
        THEN [ok |-> FALSE, r |-> NoFd, w |-> NoFd, tbl |-> tbl]
        ELSE [ok |-> TRUE, r |-> r, w |-> w, tbl |-> OpenAt(t1, w, wobj, FALSE)]

\* spawn_dbus_daemon on macOS: pipe() for the address channel; the two
\* set_close_on_exec calls of Pipe::new are still to come.
PipeNewAddrMac(t) ==
    /\ th[t].pc = "start" /\ th[t].kind = "daemon"
    /\ LET p == pipe(pfd, AddrR(t), AddrW(t))
       IN  IF p.ok
           THEN /\ pfd' = p.tbl
                /\ th' = Set(t, [th[t] EXCEPT !.pc = "flagging", !.ar = p.r,
                                 !.aw = p.w, !.closeq = <<p.r, p.w>>,
                                 !.after = "spawn"])
                /\ UNCHANGED res
           ELSE /\ Fail(t, "err", EMFILE, <<>>)
                /\ UNCHANGED pfd
    /\ UNCHANGED <<hd, ch, errbuf, addrbuf, faults, penv, hyg, esc, ret, dlog>>

\* A Pipe::new for macOS that flags the read end only.
PipeNewErrMacReadOnly(t) ==
    /\ th[t].pc = "spawn"
    /\ LET p == pipe(pfd, ErrR(t), ErrW(t))
       IN  IF p.ok
           THEN /\ pfd' = p.tbl
                /\ th' = Set(t, [th[t] EXCEPT !.pc = "flagging", !.er = p.r,
                        !.ew = p.w, !.closeq = <<p.r>>,
                        !.after = IF p.w <= Slot THEN "dupfd" ELSE "fork"])
                /\ UNCHANGED res
           ELSE /\ Fail(t, "err", EMFILE, CallerDrops(t))
                /\ UNCHANGED pfd
    /\ UNCHANGED <<hd, ch, errbuf, addrbuf, faults, penv, hyg, esc, ret, dlog>>

\* spawn on macOS: pipe() for the error channel.
PipeNewErrMac(t) ==
    /\ th[t].pc = "spawn"
    /\ LET p == pipe(pfd, ErrR(t), ErrW(t))
       IN  IF p.ok
           THEN /\ pfd' = p.tbl
                /\ th' = Set(t, [th[t] EXCEPT !.pc = "flagging", !.er = p.r,
                        !.ew = p.w, !.closeq = <<p.r, p.w>>,
                        !.after = IF p.w <= Slot THEN "dupfd" ELSE "fork"])
                /\ UNCHANGED res
           ELSE /\ Fail(t, "err", EMFILE, CallerDrops(t))
                /\ UNCHANGED pfd
    /\ UNCHANGED <<hd, ch, errbuf, addrbuf, faults, penv, hyg, esc, ret, dlog>>

\* spawn: fcntl(w, F_DUPFD_CLOEXEC, 4); the old Pipe is dropped when w is
\* assigned.
DupFd(t) ==
    /\ th[t].pc = "dupfd"
    /\ LET fd == LowestFree(pfd, DupMin)
       IN  IF fd /= NoFd /\ th[t].ew \in DOMAIN pfd
           THEN /\ pfd' = OpenAt(pfd, fd, pfd[th[t].ew].obj, TRUE)
                /\ th' = Set(t, [th[t] EXCEPT !.pc = "closing", !.ew = fd,
                                 !.closeq = <<th[t].ew>>, !.after = "fork"])
                /\ UNCHANGED res
           ELSE /\ Fail(t, "err", EMFILE, <<th[t].ew, th[t].er>> \o CallerDrops(t))
                /\ UNCHANGED pfd
    /\ UNCHANGED <<hd, ch, errbuf, addrbuf, faults, penv, hyg, esc, ret, dlog>>

\* Drop for Pipe: close(fd), one Pipe of the queue per step.
PipeDrop(t) ==
    /\ th[t].pc = "closing"
    /\ pfd' = CloseFd(pfd, Head(th[t].closeq))
    /\ LET rest == Tail(th[t].closeq)
           to == th[t].after
       IN  IF rest /= <<>>
           THEN /\ th' = Set(t, [th[t] EXCEPT !.closeq = rest])
                /\ UNCHANGED res
           ELSE IF to \in {"err", "other"}
           THEN /\ th' = Set(t, [th[t] EXCEPT !.closeq = rest, !.pc = "done"])
                /\ res' = [res EXCEPT ![t] =
                             [tag |-> to, code |-> th[t].err, addr |-> <<>>]]
           ELSE IF to = "ok"
           THEN /\ th' = Set(t, [th[t] EXCEPT !.closeq = rest, !.pc = "have"])
                /\ res' = [res EXCEPT ![t] = [@ EXCEPT !.tag = "ok"]]
           ELSE /\ th' = Set(t, [th[t] EXCEPT !.closeq = rest, !.pc = to])
                /\ UNCHANGED res
    /\ UNCHANGED <<hd, ch, errbuf, addrbuf, faults, penv, hyg, esc, ret, dlog>>

\* The process id the OS gives the child of launch t: fresh for every fork.
Pid(t) == ParentPid + t

\* An environment builder that hands the parent's variables on as they are.
KeepEnv(env) == env

\* spawn_dbus_broker: the parent's variables except LISTEN_PID and
\* LISTEN_FDS, in order.
RECURSIVE FilterEnv(_)
FilterEnv(env) ==
    IF env = <<>> THEN <<>>
    ELSE IF Head(env)[1] \in {"LISTEN_PID", "LISTEN_FDS"}
    THEN FilterEnv(Tail(env))
    ELSE <<Head(env)>> \o FilterEnv(Tail(env))

\* spawn_dbus_broker: the zeroed listen_pid buffer, an empty entry.
ListenPidBuf == <<"", <<>>>>

\* The environment handed to spawn: spawn_dbus_daemon passes none (the
\* program keeps the parent's), spawn_dbus_broker passes the filtered
\* variables, LISTEN_FDS=1 and the listen_pid buffer.
spawn_env(kind, env) ==
    IF kind = "daemon" THEN env
    ELSE FilterEnv(env) \o << <<"LISTEN_FDS", <<1>>>>, ListenPidBuf >>

\* spawn_dbus_broker, pre_exec: write LISTEN_PID=getpid() into the buffer,
\* the last entry.
write_listen_pid(env, pid) ==
    [env EXCEPT ![Len(env)] = <<"LISTEN_PID", Dec(pid)>>]

\* A parent that keeps its copy of w open while it reads.
ForkKeepsW(t) ==
    /\ th[t].pc = "fork"
    /\ ch' = [ch EXCEPT ![t] = [NoChild EXCEPT !.st = "forked", !.pid = Pid(t),
                                   !.fds = pfd,
                                   !.env = spawn_env(th[t].kind, penv)]]
    /\ hd' = [hd EXCEPT ![t] = [pid |-> Pid(t), exit_status |-> "unset"]]
    /\ th' = Set(t, [th[t] EXCEPT !.pc = "read"])
    /\ UNCHANGED <<pfd, res, errbuf, addrbuf, faults, penv, hyg, esc, ret, dlog>>

\* spawn: fork() succeeds; the child starts with a copy of the parent's
\* table.  The parent builds the Process and drops w.
Fork(t) ==
    /\ th[t].pc = "fork"
    /\ ch' = [ch EXCEPT ![t] = [NoChild EXCEPT !.st = "forked", !.pid = Pid(t),
                                   !.fds = pfd,
                                   !.env = spawn_env(th[t].kind, penv)]]
    /\ hd' = [hd EXCEPT ![t] = [pid |-> ch'[t].pid, exit_status |-> "unset"]]
    /\ th' = Set(t, [th[t] EXCEPT !.pc = "closing", !.closeq = <<th[t].ew>>,
                                  !.after = "read"])
    /\ UNCHANGED <<pfd, res, errbuf, addrbuf, faults, penv, hyg, esc, ret, dlog>>

\* spawn: fork() == -1.
ForkFail(t) ==
    /\ th[t].pc = "fork"
    /\ Fail(t, "err", EAGAIN, <<th[t].ew, th[t].er>> \o CallerDrops(t))
    /\ UNCHANGED <<pfd, hd, ch, errbuf, addrbuf, faults, penv, hyg, esc, ret, dlog>>

\* ------------------------------------------------------ the OS: children

\* A child the parent can still wait for.
Waitable == Live \cup {"zombie"}

\* kill(pid, sig): queues the signal for a process that runs, does nothing
\* to a zombie, and fails with ESRCH when the pid no longer exists.
os_kill(c, sig) ==
    IF c.st \in Live
    THEN [ret |-> 0, errno |-> 0, c |-> [c EXCEPT !.sigs = @ \cup {sig}]]
    ELSE IF c.st = "zombie"
    THEN [ret |-> 0, errno |-> 0, c |-> c]
    ELSE [ret |-> -1, errno |-> ESRCH, c |-> c]

\* Whether waitpid(pid, &status, 0) blocks.
os_waitpid_blocks(c) == c.st \in Live

\* waitpid(pid, &status, options) when it returns: a zombie is reaped, a
\* running child gives 0 under WNOHANG and EINTR when a blocking wait is
\* interrupted, and a pid that is no child of the caller gives ECHILD.
os_waitpid(c, nohang) ==
    IF c.st = "zombie"
    THEN [ret |-> c.pid, status |-> c.status, errno |-> 0,
          c |-> [c EXCEPT !.st = "reaped"]]
    ELSE IF c.st \in Live
    THEN IF nohang THEN [ret |-> 0, status |-> "unset", errno |-> 0, c |-> c]
         ELSE [ret |-> -1, status |-> "unset", errno |-> EINTR, c |-> c]
    ELSE [ret |-> -1, status |-> "unset", errno |-> ECHILD, c |-> c]

\* ---------------------------------------------------------- Process handle

\* What a method of Process returns and does: the Result (tag "ok" with a
\* status, "running" for Ok(None), "err" with an errno), the handle and the
\* child afterwards, and the system calls made.
Outcome(tag, status, code, h, c, sys) ==
    [tag |-> tag, status |-> status, code |-> code, h |-> h, c |-> c, sys |-> sys]

\* A kill that never consults the cached exit status.
kill_uncached(h, c, sig) ==
    LET k == os_kill(c, sig)
    IN  IF k.ret = -1
        THEN Outcome("err", "unset", k.errno, h, k.c, <<<<"kill", sig>>>>)
        ELSE Outcome("ok", "unset", 0, h, k.c, <<<<"kill", sig>>>>)

\* Process::kill.
kill(h, c, sig) ==
    IF h.exit_status /= "unset"
    THEN Outcome("ok", "unset", 0, h, c, <<>>)
    ELSE LET k == os_kill(c, sig)
         IN  IF k.ret = -1
             THEN Outcome("err", "unset", k.errno, h, k.c, <<<<"kill", sig>>>>)
             ELSE Outcome("ok", "unset", 0, h, k.c, <<<<"kill", sig>>>>)

\* A wait that never consults the cached exit status.
wait_uncached(h, c) ==
    LET w == os_waitpid(c, FALSE)
    IN  IF w.ret = -1
        THEN Outcome("err", "unset", w.errno, h, w.c, <<<<"waitpid", "0">>>>)
        ELSE Outcome("ok", w.status, 0, [h EXCEPT !.exit_status = w.status],
                     w.c, <<<<"waitpid", "0">>>>)

\* Process::wait, when it returns.
wait(h, c) ==
    IF h.exit_status /= "unset"
    THEN Outcome("ok", h.exit_status, 0, h, c, <<>>)
    ELSE LET w == os_waitpid(c, FALSE)
         IN  IF w.ret = -1
             THEN Outcome("err", "unset", w.errno, h, w.c, <<<<"waitpid", "0">>>>)
             ELSE Outcome("ok", w.status, 0,
                          [h EXCEPT !.exit_status = w.status], w.c,
                          <<<<"waitpid", "0">>>>)

\* Whether Process::wait blocks in the OS.
wait_blocks(h, c) == h.exit_status = "unset" /\ os_waitpid_blocks(c)

\* A try_wait that takes a child that still runs for one that exited.
try_wait_eager(h, c) ==
    IF h.exit_status /= "unset"
    THEN Outcome("ok", h.exit_status, 0, h, c, <<>>)
    ELSE LET w == os_waitpid(c, TRUE)
         IN  IF w.ret = -1
             THEN Outcome("err", "unset", w.errno, h, w.c, <<<<"waitpid", "WNOHANG">>>>)
             ELSE Outcome("ok", "exit0", 0, [h EXCEPT !.exit_status = "exit0"],
                          w.c, <<<<"waitpid", "WNOHANG">>>>)

\* Process::try_wait.
try_wait(h, c) ==
    IF h.exit_status /= "unset"
    THEN Outcome("ok", h.exit_status, 0, h, c, <<>>)
    ELSE LET w == os_waitpid(c, TRUE)
         IN  IF w.ret = -1
             THEN Outcome("err", "unset", w.errno, h, w.c, <<<<"waitpid", "WNOHANG">>>>)
             ELSE IF w.ret = 0
             THEN Outcome("running", "unset", 0, h, w.c, <<<<"waitpid", "WNOHANG">>>>)
             ELSE Outcome("ok", w.status, 0,
                          [h EXCEPT !.exit_status = w.status], w.c,
                          <<<<"waitpid", "WNOHANG">>>>)

\* What a call `op` on the handle of thread t returned, for the record; seq
\* tells one call from the next, and pop, ptag, pstatus are the call before.
Returned(t, op, o, slept) ==
    [op |-> op, tag |-> o.tag, status |-> o.status, code |-> o.code,
     sys |-> o.sys, slept |-> slept, seq |-> 1 - ret[t].seq,
     pop |-> ret[t].op, ptag |-> ret[t].tag, pstatus |-> ret[t].status]

\* A read_exact that returns without waiting for data or end-of-file.
ReadExactNow(t) == TRUE

\* When the blocking calls of a launch return: read_exact once four bytes
\* are buffered or every copy of the write end is closed, waitpid once the
\* child is no longer running (or the wait is interrupted), read_to_string
\* once every copy of the address channel's write end is closed.
ReadExactReady(t) ==
    Len(errbuf[t]) >= MsgLen \/ ~Held(ErrW(t))

WaitReady(t) == ~wait_blocks(hd[t], ch[t]) \/ faults

ReadAddrReady(t) == ~Held(AddrW(t))

\* spawn, parent: read_exact on the error channel.  Four bytes are the
\* child's error; end-of-file before that is ErrorKind::UnexpectedEof.
ReadExact(t) ==
    /\ th[t].pc = "read"
    /\ ReadExactReady(t)
    /\ IF Len(errbuf[t]) >= MsgLen
       THEN th' = Set(t, [th[t] EXCEPT !.pc = "spawn_wait",
                    !.err = FromNeBytes(SubSeq(errbuf[t], 1, MsgLen))])
       ELSE th' = Set(t, [th[t] EXCEPT !.pc = "closing",
               !.closeq = IF th[t].kind = "daemon"
                          THEN <<th[t].er, th[t].aw>>
                          ELSE <<th[t].er, th[t].sock>>,
               !.after = IF th[t].kind = "daemon" THEN "read_addr" ELSE "ok"])
    /\ UNCHANGED <<pfd, res, hd, ch, errbuf, addrbuf, faults, penv, hyg, esc, ret, dlog>>

\* spawn, parent: let _ = p.wait() before the error is returned.
SpawnWait(t) ==
    /\ th[t].pc = "spawn_wait"
    /\ WaitReady(t)
    /\ LET o == wait(hd[t], ch[t])
       IN  /\ hd' = [hd EXCEPT ![t] = o.h]
           /\ ch' = [ch EXCEPT ![t] = o.c]
           /\ ret' = [ret EXCEPT ![t] = Returned(t, "wait", o, 0)]
    /\ th' = Set(t, [th[t] EXCEPT !.pc = "closing",
                     !.closeq = <<th[t].er>> \o CallerDrops(t), !.after = "err"])
    /\ UNCHANGED <<pfd, res, errbuf, addrbuf, faults, penv, hyg, esc, dlog>>

\* spawn_dbus_daemon: read_to_string up to end-of-file, trim, and return
\* the address or the empty-address error; r is dropped on return.
ReadAddr(t) ==
    /\ th[t].pc = "read_addr"
    /\ ReadAddrReady(t)
    /\ LET address == Trim(addrbuf[t])
       IN  /\ th' = Set(t, [th[t] EXCEPT !.pc = "closing", !.closeq = <<th[t].ar>>,
                     !.after = IF address /= <<>> THEN "ok" ELSE "other"])
           /\ res' = [res EXCEPT ![t] = [@ EXCEPT !.addr = address]]
    /\ UNCHANGED <<pfd, hd, ch, errbuf, addrbuf, faults, penv, hyg, esc, ret, dlog>>

\* -------------------------------------------------------- launch: child

\* sys::set_close_on_exec: F_GETFD, then F_SETFD when the flag changes.
set_close_on_exec(tbl, fd, flag) ==
    IF fd \notin DOMAIN tbl
    THEN [ok |-> FALSE, errno |-> EBADF, tbl |-> tbl]
    ELSE [ok |-> TRUE, errno |-> 0,
          tbl |-> [tbl EXCEPT ![fd] = [@ EXCEPT !.cx = flag]]]

\* Pipe::new on macOS: set_close_on_exec(r, true)?, then
\* set_close_on_exec(w, true)?, one call per step.
PipeSetCloexec(t) ==
    /\ th[t].pc = "flagging"
    /\ pfd' = set_close_on_exec(pfd, Head(th[t].closeq), TRUE).tbl
    /\ LET rest == Tail(th[t].closeq)
       IN  th' = Set(t, [th[t] EXCEPT !.closeq = rest,
                    !.pc = IF rest = <<>> THEN th[t].after ELSE "flagging"])
    /\ UNCHANGED <<res, hd, ch, errbuf, addrbuf, faults, penv, hyg, esc, ret, dlog>>

\* sys::get_fd_limit: the soft RLIMIT_NOFILE, rlim_cur as c_int.
get_fd_limit == AsCInt(hyg.rlim)

\* poll(pfds, n, 0) with no events asked for: revents of an entry has
\* POLLNVAL exactly when its number is not open.
poll(tbl, fds) == [k \in 1..Len(fds) |-> fds[k] \notin DOMAIN tbl]

\* The numbers i .. i + n - 1 filled into the first n entries of pfds.
Batch(i, n) == [k \in 1..n |-> i + k - 1]

\* The loop over the polled entries: set_close_on_exec(pfd.fd, true)? on
\* each entry without POLLNVAL.
RECURSIVE mark_batch(_, _, _, _)
mark_batch(r, fds, nval, k) ==
    IF k > Len(fds) THEN r
    ELSE IF nval[k] THEN mark_batch(r, fds, nval, k + 1)
    ELSE LET s == set_close_on_exec(r.tbl, fds[k], TRUE)
         IN  IF ~s.ok THEN [r EXCEPT !.ok = FALSE, !.errno = s.errno]
             ELSE mark_batch([r EXCEPT !.tbl = s.tbl], fds, nval, k + 1)

\* A loop that polls whole batches only.
RECURSIVE poll_loop_whole(_, _, _)
poll_loop_whole(r, i, limit) ==
    IF ~(i + PollBatch <= limit) THEN r
    ELSE LET fds == Batch(i, PollBatch)
             m == mark_batch([r EXCEPT !.probes = @ \o fds,
                                       !.batches = Append(@, PollBatch)],
                             fds, poll(r.tbl, fds), 1)
         IN  IF ~m.ok THEN m ELSE poll_loop_whole(m, i + PollBatch, limit)

\* while i < limit: n = min(pfds.len(), limit - i); fill, poll, mark;
\* i += n.
\* Between the poll of a batch and the marking of its entries, the
\* numbers of `gone` that are in the batch are closed by someone else.
RECURSIVE poll_loop(_, _, _, _)
poll_loop(r, i, limit, gone) ==
    IF ~(i < limit) THEN r
    ELSE LET n == IF PollBatch < limit - i THEN PollBatch ELSE limit - i
             fds == Batch(i, n)
             nval == poll(r.tbl, fds)
             left == [m \in DOMAIN r.tbl \ (gone \cap (i..(i + n - 1))) |->
                        r.tbl[m]]
             m == mark_batch([r EXCEPT !.tbl = left, !.probes = @ \o fds,
                                       !.batches = Append(@, n)],
                             fds, nval, 1)
         IN  IF ~m.ok THEN m ELSE poll_loop(m, i + n, limit, gone)

\* No hygiene: the table is left as fork copied it.
close_on_exec_from_none(tbl, min) == [NoOut EXCEPT !.tbl = tbl]

\* Hygiene that leaves out a last batch shorter than the others.
close_on_exec_from_whole(tbl, min) ==
    poll_loop_whole([NoOut EXCEPT !.tbl = tbl], min, get_fd_limit)

\* sys::close_on_exec_from (not macOS): poll the numbers of [min, limit) in
\* batches and set FD_CLOEXEC on those that are open.
close_on_exec_from(tbl, min) ==
    poll_loop([NoOut EXCEPT !.tbl = tbl], min, get_fd_limit, {})

\* The same call while the numbers of `gone` are closed from outside
\* between probe and flag-set.
close_on_exec_from_raced(tbl, min, gone) ==
    poll_loop([NoOut EXCEPT !.tbl = tbl], min, get_fd_limit, gone)

\* for fd in min..limit: set_close_on_exec(fd, true), EBADF ignored.
RECURSIVE linear_loop(_, _, _)
linear_loop(r, fd, limit) ==
    IF ~(fd < limit) THEN r
    ELSE LET s == set_close_on_exec(r.tbl, fd, TRUE)
             p == [r EXCEPT !.probes = Append(@, fd)]
         IN  IF ~s.ok /\ s.errno /= EBADF
             THEN [p EXCEPT !.ok = FALSE, !.errno = s.errno]
             ELSE linear_loop([p EXCEPT !.tbl = s.tbl], fd + 1, limit)

\* sys::close_on_exec_from (macOS): one descriptor at a time.
close_on_exec_from_macos(tbl, min) ==
    linear_loop([NoOut EXCEPT !.tbl = tbl], min, get_fd_limit)

\* dup2(from, to): `to` becomes a copy of `from` without FD_CLOEXEC.
dup2(tbl, from, to) ==
    IF from \notin DOMAIN tbl
    THEN [ok |-> FALSE, errno |-> EBADF, tbl |-> tbl]
    ELSE [ok |-> TRUE, errno |-> 0, tbl |-> OpenAt(tbl, to, tbl[from].obj, FALSE)]

\* The pre_exec closure of spawn_dbus_daemon (fd is the address channel's
\* write end) and of spawn_dbus_broker (fd is the listening socket): put fd
\* on the hand-off slot and let the slot survive exec.
pre_exec(tbl, fd) ==
    LET d == IF fd /= Slot THEN dup2(tbl, fd, Slot)
             ELSE [ok |-> TRUE, errno |-> 0, tbl |-> tbl]
    IN  IF ~d.ok THEN d ELSE set_close_on_exec(d.tbl, Slot, FALSE)

\* The descriptors exec leaves open.
SurviveExec(tbl) == [n \in {m \in DOMAIN tbl : ~tbl[m].cx} |-> tbl[n]]

\* The steps of try_exec, in order.
Steps == <<"signals", "hygiene", "pre_exec", "exec">>

\* The OS error with which an injected failure of a step is reported:
\* signal() fails with EINVAL, poll() with ENOMEM, dup2() with EINTR.
FaultErrno(f) ==
    CASE f = "signals" -> EINVAL
      [] f = "hygiene" -> ENOMEM
      [] f = "pre_exec" -> EINTR
      [] OTHER -> 0

\* The child c stopped by error `code` in step number k with table tbl.
Stopped(c, k, code, tbl) ==
    [c EXCEPT !.st = "failing", !.code = code, !.fds = tbl,
              !.did = SubSeq(Steps, 1, k)]

\* A try_exec that runs the customization before the hygiene.
try_exec_customize_first(t, c) ==
    LET pe == pre_exec(c.fds, IF th[t].kind = "daemon" THEN th[t].aw
                              ELSE th[t].sock)
        hy == close_on_exec_from(pe.tbl, Slot)
        env == IF th[t].kind = "broker" THEN write_listen_pid(c.env, c.pid)
               ELSE c.env
        f == th[t].fault
    IN  IF f = "signals" THEN Stopped(c, 1, FaultErrno(f), c.fds)
        ELSE IF f = "pre_exec" THEN Stopped(c, 3, FaultErrno(f), c.fds)
        ELSE IF ~pe.ok THEN Stopped(c, 3, pe.errno, pe.tbl)
        ELSE IF f = "hygiene" THEN Stopped(c, 2, FaultErrno(f), pe.tbl)
        ELSE IF ~hy.ok THEN Stopped(c, 2, hy.errno, hy.tbl)
        ELSE IF th[t].prog = "missing"
        THEN [Stopped(c, 4, ENOENT, hy.tbl) EXCEPT !.env = env]
        ELSE [c EXCEPT !.st = "running", !.fds = SurviveExec(hy.tbl),
                       !.env = env, !.did = Steps,
                       !.execfds = DOMAIN SurviveExec(hy.tbl)]

\* try_exec in the child of launch t: reset the signals, hygiene from the
\* slot upward, pre_exec, exec.  It gives the child after a successful
\* exec, or the child holding the error of the first step that failed.
try_exec(t, c) ==
    LET f == th[t].fault
        hy == close_on_exec_from(c.fds, Slot)
        pe == pre_exec(hy.tbl, IF th[t].kind = "daemon" THEN th[t].aw
                               ELSE th[t].sock)
        env == IF th[t].kind = "broker" THEN write_listen_pid(c.env, c.pid)
               ELSE c.env
        lp == IF th[t].kind = "broker" THEN c.pid ELSE 0
    IN  IF f = "signals" THEN Stopped(c, 1, FaultErrno(f), c.fds)
        ELSE IF f = "hygiene" THEN Stopped(c, 2, FaultErrno(f), c.fds)
        ELSE IF ~hy.ok THEN Stopped(c, 2, hy.errno, hy.tbl)
        ELSE IF f = "pre_exec" THEN Stopped(c, 3, FaultErrno(f), hy.tbl)
        ELSE IF ~pe.ok THEN Stopped(c, 3, pe.errno, pe.tbl)
        ELSE IF th[t].prog = "missing"
        THEN [Stopped(c, 4, ENOENT, pe.tbl) EXCEPT !.lpid = lp, !.env = env]
        ELSE [c EXCEPT !.st = "running", !.fds = SurviveExec(pe.tbl),
                       !.lpid = lp, !.env = env, !.did = Steps,
                       !.execfds = DOMAIN SurviveExec(pe.tbl)]

\* A child whose hygiene and customization act on the table of the parent
\* as well (a child that shares the table instead of owning a copy).
ChildTryExecShared(t) ==
    /\ ch[t].st = "forked"
    /\ ch' = [ch EXCEPT ![t] = try_exec(t, ch[t])]
    /\ pfd' = [n \in DOMAIN pfd |->
                IF n \in DOMAIN ch'[t].fds /\ ch'[t].fds[n].obj = pfd[n].obj
                THEN ch'[t].fds[n] ELSE pfd[n]]
    /\ UNCHANGED <<th, res, hd, errbuf, addrbuf, faults, penv, hyg, esc, ret, dlog>>

\* spawn, child: try_exec.
ChildTryExec(t) ==
    /\ ch[t].st = "forked"
    /\ ch' = [ch EXCEPT ![t] = try_exec(t, ch[t])]
    /\ UNCHANGED <<pfd, th, res, hd, errbuf, addrbuf, faults, penv, hyg, esc, ret, dlog>>

\* A child that reports only the low byte of the code.
ChildWriteErrShort(t) ==
    /\ ch[t].st = "failing"
    /\ errbuf' = [errbuf EXCEPT ![t] = @ \o <<Byte(ch[t].code, 0)>>]
    /\ ch' = [ch EXCEPT ![t] = [@ EXCEPT !.st = "wrote"]]
    /\ UNCHANGED <<pfd, th, res, hd, addrbuf, faults, penv, hyg, esc, ret, dlog>>

\* A child whose write does not reach the error channel.
ChildWriteErrSilent(t) ==
    /\ ch[t].st = "failing"
    /\ ch' = [ch EXCEPT ![t] = [@ EXCEPT !.st = "wrote"]]
    /\ UNCHANGED <<pfd, th, res, hd, errbuf, addrbuf, faults, penv, hyg, esc, ret, dlog>>

\* spawn, child: write_all of the error code to w; a pipe write of four
\* bytes is atomic.
ChildWriteErr(t) ==
    /\ ch[t].st = "failing"
    /\ LET w == th[t].ew
           to == IF w \in DOMAIN ch[t].fds THEN ch[t].fds[w].obj ELSE <<"none", 0, "x">>
       IN  errbuf' = [u \in Threads |->
                        IF to = ErrW(u)
                        THEN errbuf[u] \o ToNeBytes(IF ch[t].code = 0 THEN EINVAL
                                                    ELSE ch[t].code)
                        ELSE errbuf[u]]
    /\ ch' = [ch EXCEPT ![t] = [@ EXCEPT !.st = "wrote"]]
    /\ UNCHANGED <<pfd, th, res, hd, addrbuf, faults, penv, hyg, esc, ret, dlog>>

\* A process ends: its descriptors are closed and it stays a zombie until
\* it is waited for.
Dead(c, status) ==
    [c EXCEPT !.st = "zombie", !.status = status, !.fds = NoTable, !.sigs = {}]

\* spawn, child: _exit(1).
ChildExit(t) ==
    /\ ch[t].st = "wrote"
    /\ ch' = [ch EXCEPT ![t] = Dead(ch[t], "exit1")]
    /\ UNCHANGED <<pfd, th, res, hd, errbuf, addrbuf, faults, penv, hyg, esc, ret, dlog>>

\* ------------------------------------------------- the launched program

\* dbus-daemon --print-address=3: print to the slot and close it.
ProgAnnounce(t, s) ==
    /\ ch[t].st = "running" /\ ~ch[t].said
    /\ Slot \in DOMAIN ch[t].fds /\ ch[t].fds[Slot].obj = AddrW(t)
    /\ addrbuf' = [addrbuf EXCEPT ![t] = @ \o s]
    /\ ch' = [ch EXCEPT ![t] = [@ EXCEPT !.said = TRUE, !.fds = CloseFd(@, Slot)]]
    /\ UNCHANGED <<pfd, th, res, hd, errbuf, faults, penv, hyg, esc, ret, dlog>>

\* The program exits on its own.
ProgExit(t) ==
    /\ ch[t].st = "running"
    /\ ch' = [ch EXCEPT ![t] = Dead(ch[t], "exit0")]
    /\ UNCHANGED <<pfd, th, res, hd, errbuf, addrbuf, faults, penv, hyg, esc, ret, dlog>>

\* A queued signal reaches the process: SIGKILL ends it, SIGTERM ends it
\* unless the program handles it.
Deliver(t, sig) ==
    /\ ch[t].st \in Live /\ sig \in ch[t].sigs
    /\ \/ ch' = [ch EXCEPT ![t] = Dead(ch[t], sig)]
       \/ /\ sig = "SIGTERM" /\ ch[t].st = "running"
          /\ ch' = [ch EXCEPT ![t] = [@ EXCEPT !.sigs = @ \ {sig}]]
    /\ UNCHANGED <<pfd, th, res, hd, errbuf, addrbuf, faults, penv, hyg, esc, ret, dlog>>

\* ------------------------------------------------- calls on the handle

Signals == {"SIGTERM", "SIGKILL"}

\* One call of Drop for Daemon, for the record: what was called, what it
\* returned, the system calls it made and how long it slept.
DropEntry(call, o, slept) ==
    [call |-> call, tag |-> o.tag, sys |-> o.sys, slept |-> slept]

\* The handle and the child after a call, and its record.
Apply(t, op, o, slept) ==
    /\ hd' = [hd EXCEPT ![t] = o.h]
    /\ ch' = [ch EXCEPT ![t] = o.c]
    /\ ret' = [ret EXCEPT ![t] = Returned(t, op, o, slept)]

\* A turn that sleeps a whole second even when less is left.
TwtTurnWholeSecond(t, left, slept, after) ==
    LET o == try_wait(hd[t], ch[t])
        sec == TicksPerSec
    IN  IF o.tag /= "running"
        THEN /\ Apply(t, "try_wait_timeout", o, slept)
             /\ th' = Set(t, [th[t] EXCEPT !.pc = after, !.left = 0, !.slept = 0])
             /\ dlog' = [dlog EXCEPT ![t] =
                  IF after = "drop_kill"
                  THEN Append(@, DropEntry("try_wait_timeout", o, slept))
                  ELSE @]
        ELSE /\ hd' = [hd EXCEPT ![t] = o.h]
             /\ ch' = [ch EXCEPT ![t] = o.c]
             /\ th' = Set(t, IF left >= sec
                  THEN [th[t] EXCEPT !.pc = "twt", !.after = after,
                                     !.left = left - sec, !.slept = slept + sec]
                  ELSE [th[t] EXCEPT !.pc = "twt_final", !.after = after,
                                     !.left = 0, !.slept = slept + sec])
             /\ UNCHANGED <<ret, dlog>>

\* Process::try_wait_timeout, one turn of its loop with `left` of the
\* timeout remaining: poll; return a status or an error; otherwise sleep a
\* second if a second is left, or sleep what is left and go to the final
\* poll.  `after` is where the caller continues.
TwtTurn(t, left, slept, after) ==
    LET o == try_wait(hd[t], ch[t])
        sec == TicksPerSec
    IN  IF o.tag /= "running"
        THEN /\ Apply(t, "try_wait_timeout", o, slept)
             /\ th' = Set(t, [th[t] EXCEPT !.pc = after, !.left = 0, !.slept = 0])
             /\ dlog' = [dlog EXCEPT ![t] =
                  IF after = "drop_kill"
                  THEN Append(@, DropEntry("try_wait_timeout", o, slept))
                  ELSE @]
        ELSE /\ hd' = [hd EXCEPT ![t] = o.h]
             /\ ch' = [ch EXCEPT ![t] = o.c]
             /\ th' = Set(t, IF left >= sec
                  THEN [th[t] EXCEPT !.pc = "twt", !.after = after,
                                     !.left = left - sec, !.slept = slept + sec]
                  ELSE [th[t] EXCEPT !.pc = "twt_final", !.after = after,
                                     !.left = 0, !.slept = slept + left])
             /\ UNCHANGED <<ret, dlog>>

\* Process::try_wait_timeout: the next turn of the loop, after a sleep.
TwtPoll(t) ==
    /\ th[t].pc = "twt"
    /\ TwtTurn(t, th[t].left, th[t].slept, th[t].after)
    /\ UNCHANGED <<pfd, res, errbuf, addrbuf, faults, penv, hyg, esc>>

\* Process::try_wait_timeout: the final try_wait after the last sleep.
TwtFinal(t) ==
    /\ th[t].pc = "twt_final"
    /\ LET o == try_wait(hd[t], ch[t])
       IN  /\ Apply(t, "try_wait_timeout", o, th[t].slept)
           /\ dlog' = [dlog EXCEPT ![t] =
                IF th[t].after = "drop_kill"
                THEN Append(@, DropEntry("try_wait_timeout", o, th[t].slept))
                ELSE @]
    /\ th' = Set(t, [th[t] EXCEPT !.pc = th[t].after, !.left = 0, !.slept = 0])
    /\ UNCHANGED <<pfd, res, errbuf, addrbuf, faults, penv, hyg, esc>>

\* Drop for Daemon: let _ = kill(SIGTERM).
DropKillTerm(t) ==
    /\ th[t].pc = "have"
    /\ LET o == kill(hd[t], ch[t], "SIGTERM")
       IN  /\ Apply(t, "kill", o, 0)
           /\ dlog' = [dlog EXCEPT ![t] = Append(@, DropEntry("kill:SIGTERM", o, 0))]
    /\ th' = Set(t, [th[t] EXCEPT !.pc = "drop_twt"])
    /\ UNCHANGED <<pfd, res, errbuf, addrbuf, faults, penv, hyg, esc>>

\* A Drop that goes from SIGTERM straight to SIGKILL.
DropTimedWaitSkipped(t) ==
    /\ th[t].pc = "drop_twt"
    /\ th' = Set(t, [th[t] EXCEPT !.pc = "drop_kill"])
    /\ UNCHANGED <<pfd, res, hd, ch, errbuf, addrbuf, faults, penv, hyg, esc, ret, dlog>>

\* Drop for Daemon: let _ = try_wait_timeout(Duration::from_secs(10)).
DropTimedWait(t) ==
    /\ th[t].pc = "drop_twt"
    /\ TwtTurn(t, GraceSecs * TicksPerSec, 0, "drop_kill")
    /\ UNCHANGED <<pfd, res, errbuf, addrbuf, faults, penv, hyg, esc>>

\* Drop for Daemon: let _ = kill(SIGKILL).
DropKillKill(t) ==
    /\ th[t].pc = "drop_kill"
    /\ LET o == kill(hd[t], ch[t], "SIGKILL")
       IN  /\ Apply(t, "kill", o, 0)
           /\ dlog' = [dlog EXCEPT ![t] = Append(@, DropEntry("kill:SIGKILL", o, 0))]
    /\ th' = Set(t, [th[t] EXCEPT !.pc = "drop_wait"])
    /\ UNCHANGED <<pfd, res, errbuf, addrbuf, faults, penv, hyg, esc>>

\* Drop for Daemon: let _ = wait().
DropWait(t) ==
    /\ th[t].pc = "drop_wait"
    /\ WaitReady(t)
    /\ LET o == wait(hd[t], ch[t])
       IN  /\ Apply(t, "wait", o, 0)
           /\ dlog' = [dlog EXCEPT ![t] = Append(@, DropEntry("wait", o, 0))]
    /\ th' = Set(t, [th[t] EXCEPT !.pc = "dropped"])
    /\ UNCHANGED <<pfd, res, errbuf, addrbuf, faults, penv, hyg, esc>>

\* ------------------------------------------------ callers of the handle

\* A caller of Process::kill.
CallKill(t, sig) ==
    /\ th[t].pc = "have"
    /\ Apply(t, "kill", kill(hd[t], ch[t], sig), 0)
    /\ UNCHANGED <<pfd, th, res, errbuf, addrbuf, faults, penv, hyg, esc, dlog>>

\* A caller of Process::wait; the call returns when waitpid does.
CallWait(t) ==
    /\ th[t].pc = "have"
    /\ WaitReady(t)
    /\ Apply(t, "wait", wait(hd[t], ch[t]), 0)
    /\ UNCHANGED <<pfd, th, res, errbuf, addrbuf, faults, penv, hyg, esc, dlog>>

\* A caller of Process::try_wait.
CallTryWait(t) ==
    /\ th[t].pc = "have"
    /\ Apply(t, "try_wait", try_wait(hd[t], ch[t]), 0)
    /\ UNCHANGED <<pfd, th, res, errbuf, addrbuf, faults, penv, hyg, esc, dlog>>

\* A try_wait_timeout that sleeps the timeout before it polls.
CallTryWaitTimeoutSleepFirst(t, d) ==
    /\ th[t].pc = "have"
    /\ th' = Set(t, [th[t] EXCEPT !.pc = "twt_final", !.after = "have",
                                  !.left = 0, !.slept = d])
    /\ UNCHANGED <<pfd, res, hd, ch, errbuf, addrbuf, faults, penv, hyg, esc, ret, dlog>>

\* A caller of Process::try_wait_timeout with a timeout of d ticks.
CallTryWaitTimeout(t, d) ==
    /\ th[t].pc = "have"
    /\ TwtTurn(t, d, 0, "have")
    /\ UNCHANGED <<pfd, res, errbuf, addrbuf, faults, penv, hyg, esc>>

\* Something else in the host process reaps the zombie (a wait for any
\* child, or SIGCHLD set to be ignored): the pid is no child any more.
ExternalReap(t) ==
    /\ faults
    /\ ch[t].st = "zombie"
    /\ ch' = [ch EXCEPT ![t] = [@ EXCEPT !.st = "gone"]]
    /\ UNCHANGED <<pfd, th, res, hd, errbuf, addrbuf, faults, penv, hyg, esc, ret, dlog>>

\* --------------------------------------------------------- specification

Launch(t) ==
    \/ PipeNewAddr(t) \/ BindSocket(t) \/ PipeNewErr(t) \/ DupFd(t)
    \/ PipeDrop(t) \/ Fork(t) \/ ForkFail(t) \/ ReadExact(t) \/ SpawnWait(t)
    \/ ReadAddr(t)

Child(t) == ChildTryExec(t) \/ ChildWriteErr(t) \/ ChildExit(t)

Program(t) ==
    \/ \E s \in Announcements : ProgAnnounce(t, s)
    \/ ProgExit(t)

DropDaemon(t) ==
    \/ DropKillTerm(t) \/ DropTimedWait(t) \/ TwtPoll(t) \/ TwtFinal(t)
    \/ DropKillKill(t) \/ DropWait(t)

Calls(t) ==
    \/ \E sig \in Signals : CallKill(t, sig)
    \/ CallWait(t) \/ CallTryWait(t)
    \/ \E d \in 0..MaxTimeout : CallTryWaitTimeout(t, d)
    \/ TwtPoll(t) \/ TwtFinal(t)

Host(t) ==
    \/ ProgExit(t)
    \/ \E sig \in Signals : Deliver(t, sig)
    \/ ExternalReap(t)

\* The launches of NThreads threads, in a host process that neither
\* interrupts nor steals a wait.
Next == \E t \in Threads : Launch(t) \/ Child(t) \/ Program(t)

Spec == Init /\ [][Next]_vars

\* The launch as built for macOS: Pipe::new is pipe() followed by two
\* set_close_on_exec calls.
LaunchMac(t) ==
    \/ PipeNewAddrMac(t) \/ BindSocket(t) \/ PipeNewErrMac(t) \/ PipeSetCloexec(t)
    \/ DupFd(t) \/ PipeDrop(t) \/ Fork(t) \/ ForkFail(t) \/ ReadExact(t)
    \/ SpawnWait(t) \/ ReadAddr(t)

NextMac == \E t \in Threads : LaunchMac(t) \/ Child(t) \/ Program(t)

SpecMac == Init /\ [][NextMac]_vars

\* A step of one of the parent's threads or of a forked child up to its
\* exec or exit.
ThreadsAndChildren == \E t \in Threads : Launch(t) \/ Child(t)

\* A thread that launches nothing.
IdleThread == [NewThread("daemon", "present") EXCEPT !.pc = "idle"]

\* Steps of try_exec whose failure can be injected.
ChildFaults == {"none", "signals", "hygiene", "pre_exec"}

\* One launch, by thread 1, in any environment of the parent and with any
\* one step of its child failing.
InitSingle ==
    /\ pfd \in InitTables
    /\ penv \in ParentEnvs
    /\ hyg = NoHyg
    /\ esc = NoEsc
    /\ \E k \in Kinds, p \in Progs, f \in ChildFaults :
         th = [t \in Threads |->
                 IF t = 1 THEN [NewThread(k, p) EXCEPT !.fault = f]
                 ELSE IdleThread]
    /\ res = [t \in Threads |-> NoResult]
    /\ hd = [t \in Threads |-> NoHandle]
    /\ ch = [t \in Threads |-> NoChild]
    /\ errbuf = [t \in Threads |-> <<>>]
    /\ addrbuf = [t \in Threads |-> <<>>]
    /\ faults = FALSE
    /\ ret = [t \in Threads |-> NoRet]
    /\ dlog = [t \in Threads |-> <<>>]

SpecSingle == InitSingle /\ [][Next]_vars

\* Bytes that may arrive on the error channel.
HandshakeBytes == {0, ENOENT, 255}

\* What may have arrived when the channel is at end-of-file: up to MsgLen
\* bytes.
Arrivals == UNION {[1..n -> HandshakeBytes] : n \in 0..MsgLen}

\* Thread 1 is about to read the error channel of its launch of kind k,
\* `bytes` have arrived and every write end is closed: the child has ended.
AtRead(k, bytes) ==
    /\ pfd = IF k = "daemon"
             THEN OpenAt(OpenAt(OpenAt(StdTable, 3, AddrR(1), TRUE),
                                4, AddrW(1), TRUE), 5, ErrR(1), TRUE)
             ELSE OpenAt(OpenAt(StdTable, 3, Sock(1), TRUE), 4, ErrR(1), TRUE)
    /\ th = [t \in Threads |->
               IF t = 1
               THEN IF k = "daemon"
                    THEN [NewThread(k, "missing") EXCEPT !.pc = "read",
                            !.ar = 3, !.aw = 4, !.er = 5, !.ew = 6]
                    ELSE [NewThread(k, "missing") EXCEPT !.pc = "read",
                            !.sock = 3, !.er = 4, !.ew = 5]
               ELSE IdleThread]
    /\ res = [t \in Threads |-> NoResult]
    /\ hd = [t \in Threads |->
               IF t = 1 THEN [pid |-> Pid(1), exit_status |-> "unset"]
               ELSE NoHandle]
    /\ ch = [t \in Threads |->
               IF t = 1
               THEN [NoChild EXCEPT !.st = "zombie", !.pid = Pid(1),
                       !.code = ENOENT, !.status = "exit1", !.did = Steps,
                       !.env = spawn_env(k, InheritedEnv)]
               ELSE NoChild]
    /\ errbuf = [t \in Threads |-> IF t = 1 THEN bytes ELSE <<>>]
    /\ addrbuf = [t \in Threads |-> <<>>]
    /\ ret = [t \in Threads |-> NoRet]
    /\ dlog = [t \in Threads |-> <<>>]

InitHandshake ==
    /\ faults = FALSE
    /\ penv = InheritedEnv
    /\ hyg = NoHyg
    /\ esc = NoEsc
    /\ \E k \in Kinds, bytes \in Arrivals : AtRead(k, bytes)

\* The parent's side of the handshake, from the read on.
NextHandshake ==
    \E t \in Threads : ReadExact(t) \/ SpawnWait(t) \/ PipeDrop(t) \/ ReadAddr(t)

\* The handshake read for every content of the error channel at
\* end-of-file.
SpecHandshake == InitHandshake /\ [][NextHandshake]_vars

\* The state right after thread 1 launched a daemon of kind k: its Pipes
\* are dropped, the child has exec'ed the program and has announced its
\* address, and the handle is fresh.
Launched(k) ==
    /\ pfd = StdTable
    /\ th = [t \in Threads |->
               IF t = 1 THEN [NewThread(k, "present") EXCEPT !.pc = "have"]
               ELSE IdleThread]
    /\ res = [t \in Threads |->
               IF t = 1 THEN [tag |-> "ok", code |-> 0,
                              addr |-> IF k = "daemon" THEN <<"a">> ELSE <<>>]
               ELSE NoResult]
    /\ hd = [t \in Threads |->
               IF t = 1 THEN [pid |-> Pid(1), exit_status |-> "unset"]
               ELSE NoHandle]
    /\ ch = [t \in Threads |->
               IF t = 1
               THEN [NoChild EXCEPT !.st = "running", !.pid = Pid(1),
                       !.said = (k = "daemon"),
                       !.lpid = IF k = "broker" THEN Pid(1) ELSE 0,
                       !.execfds = 0..Slot,
                       !.env = IF k = "daemon" THEN InheritedEnv
                               ELSE write_listen_pid(
                                        spawn_env(k, InheritedEnv), Pid(1)),
                       !.did = Steps,
                       !.fds = IF k = "daemon" THEN StdTable
                               ELSE OpenAt(StdTable, Slot, Sock(1), FALSE)]
               ELSE NoChild]
    /\ errbuf = [t \in Threads |-> <<>>]
    /\ addrbuf = [t \in Threads |-> IF t = 1 /\ k = "daemon" THEN <<"a">> ELSE <<>>]
    /\ ret = [t \in Threads |-> NoRet]
    /\ dlog = [t \in Threads |-> <<>>]

InitHandle ==
    /\ faults = TRUE
    /\ penv = InheritedEnv
    /\ hyg = NoHyg
    /\ esc = NoEsc
    /\ \E k \in Kinds : Launched(k)

\* Any sequence of calls on the handle of a launched child, in a host
\* process that may interrupt a blocking wait or reap the child itself.
NextHandle == \E t \in Threads : Calls(t) \/ Host(t)

SpecHandle == InitHandle /\ [][NextHandle]_vars

\* The sleeps of try_wait_timeout end: a thread inside the call goes on.
InTimedWait(t) == th[t].pc \in {"twt", "twt_final"}
TimedWaitGoesOn == \E t \in Threads : TwtPoll(t) \/ TwtFinal(t)
SpecHandleLive ==
    SpecHandle /\ ([]<>(\A t \in Threads : ~InTimedWait(t))
                      \/ []<><<TimedWaitGoesOn>>_vars)

\* Drop for Daemon on a launched child, in the same host process.
NextDrop == \E t \in Threads : DropDaemon(t) \/ Host(t)

SpecDrop == InitHandle /\ [][NextDrop]_vars

\* ------------------------------------------------------------------ claims

\* ------------------------------------------------- a Pipe on its own

\* IntoRawFd for Pipe: `let Pipe { fd } = self; fd` copies the number out
\* of self, and self, still whole, is dropped when the function returns:
\* Drop for Pipe closes the number that is returned.
into_raw_fd(tbl, fd) == [fd |-> fd, tbl |-> CloseFd(tbl, fd)]

PipeTables ==
    {[n \in S |-> Entry(Extra(n), FALSE)] : S \in SUBSET (0..(FdLimit - 3))}

InitPipe ==
    /\ pfd \in PipeTables
    /\ th = [t \in Threads |->
               IF t = 1 THEN [NewThread("daemon", "present") EXCEPT !.pc = "pipe"]
               ELSE IdleThread]
    /\ res = [t \in Threads |-> NoResult]
    /\ hd = [t \in Threads |-> NoHandle]
    /\ ch = [t \in Threads |-> NoChild]
    /\ errbuf = [t \in Threads |-> <<>>]
    /\ addrbuf = [t \in Threads |-> <<>>]
    /\ faults = FALSE
    /\ penv = <<>>
    /\ hyg = NoHyg
    /\ esc = NoEsc
    /\ ret = [t \in Threads |-> NoRet]
    /\ dlog = [t \in Threads |-> <<>>]

\* let (r, w) = Pipe::new()?
PipeNewOwn(t) ==
    /\ th[t].pc = "pipe"
    /\ LET p == Pipe_new(pfd, AddrR(t), AddrW(t))
       IN  IF p.ok
           THEN /\ pfd' = p.tbl
                /\ th' = Set(t, [th[t] EXCEPT !.pc = "own", !.ar = p.r, !.aw = p.w])
                /\ UNCHANGED res
           ELSE /\ Fail(t, "err", EMFILE, <<>>)
                /\ UNCHANGED pfd
    /\ UNCHANGED <<hd, ch, errbuf, addrbuf, faults, penv, hyg, esc, ret, dlog>>

\* let fd = r.into_raw_fd(); w goes out of scope afterwards.
IntoRawFd(t) ==
    /\ th[t].pc = "own"
    /\ LET o == into_raw_fd(pfd, th[t].ar)
       IN  /\ pfd' = o.tbl
           /\ ret' = [ret EXCEPT ![t] = [NoRet EXCEPT !.op = "into_raw_fd",
                                           !.tag = "ok", !.code = o.fd]]
    /\ th' = Set(t, [th[t] EXCEPT !.pc = "closing", !.closeq = <<th[t].aw>>,
                                  !.after = "done"])
    /\ UNCHANGED <<res, hd, ch, errbuf, addrbuf, faults, penv, hyg, esc, dlog>>

\* Both Pipes go out of scope: w is dropped, then r.
ScopeExit(t) ==
    /\ th[t].pc = "own"
    /\ th' = Set(t, [th[t] EXCEPT !.pc = "closing",
                     !.closeq = <<th[t].aw, th[t].ar>>, !.after = "done"])
    /\ UNCHANGED <<pfd, res, hd, ch, errbuf, addrbuf, faults, penv, hyg, esc, ret, dlog>>

NextPipe ==
    \E t \in Threads : PipeNewOwn(t) \/ IntoRawFd(t) \/ ScopeExit(t) \/ PipeDrop(t)

\* A pair of Pipes that is dropped, or whose read end is handed out.
SpecPipe == InitPipe /\ [][NextPipe]_vars

\* ------------------------------------------------- hygiene on its own

\* The descriptor tables a forked child may start with: any set of numbers
\* up to the limit itself open, none of them close-on-exec or the odd ones.
HygieneTables ==
    {[n \in S |-> Entry(Extra(n), odd /\ n % 2 = 1)] :
        S \in SUBSET (0..FdLimit), odd \in BOOLEAN}

InitHygiene ==
    /\ pfd = StdTable
    /\ th = [t \in Threads |-> IdleThread]
    /\ res = [t \in Threads |-> NoResult]
    /\ hd = [t \in Threads |-> NoHandle]
    /\ ch = [t \in Threads |-> NoChild]
    /\ errbuf = [t \in Threads |-> <<>>]
    /\ addrbuf = [t \in Threads |-> <<>>]
    /\ faults = FALSE
    /\ penv = <<>>
    /\ ret = [t \in Threads |-> NoRet]
    /\ dlog = [t \in Threads |-> <<>>]
    /\ \E tbl \in HygieneTables, min \in 0..(FdLimit + 1) :
         hyg = [NoHyg EXCEPT !.stage = "called", !.min = min, !.tbl = tbl]
    /\ esc = NoEsc

\* close_on_exec_from(min) as built for Linux.
RunBatched ==
    /\ hyg.stage = "called" /\ "batched" \notin hyg.ran
    /\ hyg' = [hyg EXCEPT !.out = close_on_exec_from(hyg.tbl, hyg.min),
                          !.ran = @ \cup {"batched"}]
    /\ UNCHANGED <<pfd, th, res, hd, ch, errbuf, addrbuf, faults, penv, esc, ret, dlog>>

\* close_on_exec_from(min) as built for macOS, on the same table.
RunLinear ==
    /\ hyg.stage = "called" /\ "linear" \notin hyg.ran
    /\ hyg' = [hyg EXCEPT !.lin = close_on_exec_from_macos(hyg.tbl, hyg.min),
                          !.ran = @ \cup {"linear"}]
    /\ UNCHANGED <<pfd, th, res, hd, ch, errbuf, addrbuf, faults, penv, esc, ret, dlog>>

NextHygiene == RunBatched \/ RunLinear

\* Soft limits the OS may report that are no lower than FdLimit, so that
\* every descriptor of the tables is below the limit: FdLimit itself and
\* values beyond c_int, RLIM_INFINITY among them.  (Values within c_int
\* far above FdLimit scan the same descriptors as FdLimit does.)
Limits ==
    {r \in {RLim(h, b, l) : h \in {"zero", "some", "ones"}, b \in BOOLEAN,
                            l \in (0..FdLimit) \cup {IntMax}} :
        /\ ~r.bit31 => r.low <= FdLimit
        /\ FitsCInt(r) => r.low = FdLimit}

LimitTables ==
    {[n \in S |-> Entry(Extra(n), FALSE)] : S \in SUBSET ((Slot - 1)..(FdLimit - 1))}

InitLimit ==
    /\ pfd = StdTable
    /\ th = [t \in Threads |-> IdleThread]
    /\ res = [t \in Threads |-> NoResult]
    /\ hd = [t \in Threads |-> NoHandle]
    /\ ch = [t \in Threads |-> NoChild]
    /\ errbuf = [t \in Threads |-> <<>>]
    /\ addrbuf = [t \in Threads |-> <<>>]
    /\ faults = FALSE
    /\ penv = <<>>
    /\ ret = [t \in Threads |-> NoRet]
    /\ dlog = [t \in Threads |-> <<>>]
    /\ \E tbl \in LimitTables, min \in {0, Slot}, r \in Limits :
         hyg = [NoHyg EXCEPT !.stage = "called", !.min = min, !.tbl = tbl,
                             !.rlim = r]
    /\ esc = NoEsc

\* Both builds of close_on_exec_from under every such limit.
SpecLimit == InitLimit /\ [][NextHygiene]_vars

\* One descriptor of the table is closed from outside during the call.
InitRace ==
    /\ InitHygiene
    /\ hyg.min <= Slot

StartRace ==
    /\ hyg.stage = "called"
    /\ \E g \in DOMAIN hyg.tbl :
         hyg' = [hyg EXCEPT !.stage = "raced", !.gone = {g}]
    /\ UNCHANGED <<pfd, th, res, hd, ch, errbuf, addrbuf, faults, penv, esc, ret, dlog>>

RunRaced ==
    /\ hyg.stage = "raced" /\ "batched" \notin hyg.ran
    /\ hyg' = [hyg EXCEPT
                 !.out = close_on_exec_from_raced(hyg.tbl, hyg.min, hyg.gone),
                 !.ran = @ \cup {"batched"}]
    /\ UNCHANGED <<pfd, th, res, hd, ch, errbuf, addrbuf, faults, penv, esc, ret, dlog>>

NextRace == StartRace \/ RunRaced

\* close_on_exec_from with a descriptor closed under it.
SpecRace == InitRace /\ [][NextRace]_vars

\* Both builds of close_on_exec_from on every table and every minimum.
SpecHygiene == InitHygiene /\ [][NextHygiene]_vars

Returned_(t) == res[t].tag /= "none"
Forked(t) == ch[t].st /= "none"

\* How far a thread is from the end of its launch, and a forked child from
\* its exec or exit: every step of either moves it strictly closer.
StageRank(pc) ==
    CASE pc = "start" -> 100 [] pc = "spawn" -> 90 [] pc = "dupfd" -> 80
      [] pc = "fork" -> 70 [] pc = "read" -> 60 [] pc = "spawn_wait" -> 50
      [] pc = "read_addr" -> 30 [] OTHER -> 0

ThreadRank(t) ==
    IF th[t].pc = "closing" THEN StageRank(th[t].after) + Len(th[t].closeq)
    ELSE StageRank(th[t].pc)

ChildRank(t) ==
    CASE ch[t].st = "forked" -> 3 [] ch[t].st = "failing" -> 2
      [] ch[t].st = "wrote" -> 1 [] OTHER -> 0

\* Whether the thread of launch t can take its next step: only the three
\* blocking calls can make it wait.
LaunchCanStep(t) ==
    CASE th[t].pc = "read" -> ReadExactReady(t)
      [] th[t].pc = "spawn_wait" -> WaitReady(t)
      [] th[t].pc = "read_addr" -> ReadAddrReady(t)
      [] th[t].pc \in {"start", "spawn", "dupfd", "fork", "closing"} -> TRUE
      [] OTHER -> FALSE

\* Whether the child of launch t is between its fork and its exec or exit.
ChildCanStep(t) == ch[t].st \in {"forked", "failing", "wrote"}

RECURSIVE RankSum(_)
RankSum(n) == IF n = 0 THEN 0 ELSE ThreadRank(n) + ChildRank(n) + RankSum(n - 1)

\* C1, safety: a launch of a program that cannot be exec'ed never gets a
\* handle (it never enters the success path of the handshake, on the daemon
\* path and on the broker path alike), and once its child is forked what it
\* returns is the error with the child's exec failure code, ENOENT.
C1_NoHandle ==
    \A t \in Threads : th[t].prog = "missing" =>
        /\ th[t].pc \notin {"read_addr", "have"}
        /\ res[t].tag \notin {"ok", "other"}
        /\ th[t].pc = "closing" => th[t].after \notin {"read_addr", "ok", "other"}
        /\ (Returned_(t) /\ Forked(t)) =>
               (res[t].tag = "err" /\ res[t].code = ENOENT)

\* C1, no hang: while such a launch has not returned, its thread can take
\* its next step, or some forked child that has not yet exec'ed or exited
\* can take one.
C1_NotStuck ==
    \A t \in Threads : (th[t].prog = "missing" /\ ~Returned_(t)) =>
        \/ LaunchCanStep(t)
        \/ \E u \in Threads : ChildCanStep(u)

\* C1, no hang: every step of a thread or of a child before its exec moves
\* it closer to its end; the other steps (the launched program's) move
\* nobody back.
C1_Advance ==
    \/ RankSum(NThreads)' < RankSum(NThreads)
    \/ /\ RankSum(NThreads)' = RankSum(NThreads)
       /\ th' = th

\* C1: launching a program that cannot be exec'ed always terminates with
\* the child's exec failure code and never with a handle: the three parts
\* above, the last two giving termination under any fair scheduler.
C1_MissingProgram == []C1_NoHandle /\ []C1_NotStuck /\ [][C1_Advance]_vars

\* C1 witness: a broker launch of a missing program has returned ENOENT and
\* its child is reaped.
C1_Witness ==
    \E t \in Threads :
        /\ th[t].prog = "missing" /\ th[t].kind = "broker"
        /\ res[t] = [tag |-> "err", code |-> ENOENT, addr |-> <<>>]
        /\ ch[t].st = "reaped"

\* ------------------------------------------------------------------- C2

\* Every thread has returned from launch.
AllReturned == \A t \in Threads : th[t].pc \in {"done", "have"}

\* The descriptors of a table that the launches did not open.
Base(tbl) == {n \in DOMAIN tbl : tbl[n].obj[1] \in {"stdio", "extra"}}

\* C2, handles: a launch that returned Ok holds the handle of its own child
\* (the child forked by this launch, which exec'ed the program with this
\* launch's channel or socket on the slot), no two handles name the same
\* process, and a daemon's address is what its own child announced.  A
\* launch fails only when the program is missing, a descriptor or process
\* could not be had, or the address is empty.
C2_OwnHandle ==
    \A t \in Threads :
        /\ res[t].tag = "ok" =>
             /\ th[t].pc = "have" /\ th[t].prog = "present"
             /\ hd[t].pid = ch[t].pid /\ hd[t].pid = Pid(t)
             /\ ch[t].st \in {"running", "zombie"}
             /\ Slot \in ch[t].execfds
             /\ \A u \in Threads \ {t} : hd[u].pid /= hd[t].pid
             /\ th[t].kind = "daemon" =>
                  res[t].addr = Trim(addrbuf[t]) /\ res[t].addr /= <<>>
             /\ (th[t].kind = "broker" /\ ch[t].st = "running") =>
                  ch[t].fds[Slot].obj = Sock(t)
        /\ res[t].tag = "err" =>
             /\ res[t].code \in {ENOENT, EMFILE, EAGAIN}
             /\ res[t].code = ENOENT => th[t].prog = "missing"
        /\ res[t].tag = "other" => Trim(addrbuf[t]) = <<>>

\* C2, descriptors: once every launch has returned, the parent has no
\* descriptor left that a launch opened.
C2_NothingLeft == AllReturned => Base(pfd) = DOMAIN pfd

\* C2, descriptors: no step closes, opens or replaces a descriptor that the
\* parent had before the launches.
C2_KeepsBase ==
    /\ Base(pfd') = Base(pfd)
    /\ \A n \in Base(pfd) : pfd'[n] = pfd[n]

\* C2: concurrent launches each return the handle of their own child, and
\* when all have returned the parent's open descriptors are those it had
\* before the launches (Drop for Daemon makes no descriptor call).
C2_ConcurrentLaunches ==
    []C2_OwnHandle /\ []C2_NothingLeft /\ [][C2_KeepsBase]_vars

\* C2 witness: both launches returned Ok, their children were alive at the
\* same time, and the parent is back to its five descriptors.
C2_Witness ==
    /\ \A t \in Threads : res[t].tag = "ok" /\ ch[t].st = "running"
    /\ AllReturned
    /\ DOMAIN pfd = DOMAIN ExtraTable

\* ------------------------------------------------------------------- C3

\* The child of launch t has exec'ed the program.
Execed(t) == ch[t].st \in {"running", "zombie", "reaped", "gone"} /\ ch[t].execfds /= {}

\* C3: the descriptors that survive exec in a launched child are the slot
\* and those of 0..2 that are the parent's standard streams, whatever else
\* the parent had open without close-on-exec when it forked; and nothing on
\* them is a channel of this or another launch except this launch's own
\* hand-off on the slot.
C3_Survivors ==
    \A t \in Threads : Execed(t) =>
        /\ ch[t].execfds \subseteq 0..Slot
        /\ Slot \in ch[t].execfds
        /\ \A n \in 0..(Slot - 1) :
             n \in ch[t].execfds <=> (n \in DOMAIN pfd /\ pfd[n].obj = Stdio(n))
        /\ \A n \in DOMAIN ch[t].fds :
             \/ n < Slot /\ ch[t].fds[n].obj = Stdio(n)
             \/ n = Slot /\ ch[t].fds[n].obj =
                    (IF th[t].kind = "daemon" THEN AddrW(t) ELSE Sock(t))

\* C3 witness: the parent has two more descriptors open without
\* close-on-exec, on 3 and 4, and both children exec'ed with exactly 0..3.
C3_Witness ==
    /\ \A n \in {3, 4} : n \in DOMAIN pfd /\ pfd[n] = Entry(Extra(n), FALSE)
    /\ \A t \in Threads : ch[t].st = "running" /\ ch[t].execfds = 0..Slot

\* ------------------------------------------------------------------- C4

\* Launch t is on the error path of the handshake / on its success path.
OnErrPath(t) ==
    \/ th[t].pc = "spawn_wait"
    \/ Forked(t) /\ th[t].pc = "closing" /\ th[t].after = "err"
    \/ Forked(t) /\ res[t].tag = "err"

OnOkPath(t) ==
    \/ th[t].pc \in {"read_addr", "have"}
    \/ th[t].pc = "closing" /\ th[t].after \in {"read_addr", "ok", "other"}
    \/ res[t].tag \in {"ok", "other"}

\* C4: the handshake ends in one of two ways.  Four bytes arrived: they
\* decode to the code the child reported, the blocking wait has reaped the
\* child before anything else is done, and that code is what is returned.
\* End-of-file with no byte: the handle carries the child's pid and no exit
\* status.
C4_Handshake ==
    \A t \in Threads :
        /\ Forked(t) /\ th[t].pc \notin {"closing", "read"} =>
             OnErrPath(t) \/ OnOkPath(t)
        /\ OnErrPath(t) =>
             /\ Len(errbuf[t]) = MsgLen
             /\ ch[t].code /= 0 /\ th[t].err = ch[t].code
             /\ th[t].pc /= "spawn_wait" =>
                  /\ ch[t].st = "reaped"
                  /\ ret[t].op = "wait" /\ ret[t].sys = <<<<"waitpid", "0">>>>
             /\ res[t].tag = "err" => res[t].code = ch[t].code
        /\ OnOkPath(t) =>
             /\ errbuf[t] = <<>> /\ ~Held(ErrW(t))
             /\ hd[t].pid = ch[t].pid /\ ch[t].pid = Pid(t)
             /\ hd[t].exit_status = "unset"
             /\ ch[t].st \in {"running", "zombie"}

\* C4 witness: one launch returned the decoded error with its child reaped,
\* the other returned a handle.
C4_Witness ==
    \E t, u \in Threads :
        /\ res[t] = [tag |-> "err", code |-> ENOENT, addr |-> <<>>]
        /\ ch[t].st = "reaped" /\ errbuf[t] = ToNeBytes(ENOENT)
        /\ res[u].tag = "ok" /\ th[u].pc = "have" /\ errbuf[u] = <<>>
        /\ hd[u] = [pid |-> ch[u].pid, exit_status |-> "unset"]

\* ------------------------------------------------------------------- C5

\* C5: a wait() that follows a successful wait() on the same handle is
\* successful too, returns the same exit status, and makes no system call.
C5_SecondWait ==
    \A t \in Threads :
        (ret[t].op = "wait" /\ ret[t].pop = "wait" /\ ret[t].ptag = "ok") =>
            /\ ret[t].tag = "ok"
            /\ ret[t].status = ret[t].pstatus
            /\ ret[t].status = hd[t].exit_status
            /\ ret[t].sys = <<>>

\* C5 witness: two successive successful waits on a child that SIGKILL
\* ended.
C5_Witness ==
    \E t \in Threads :
        /\ ret[t].op = "wait" /\ ret[t].tag = "ok"
        /\ ret[t].pop = "wait" /\ ret[t].ptag = "ok"
        /\ ret[t].status = "SIGKILL" /\ ret[t].pstatus = "SIGKILL"
        /\ ch[t].st = "reaped"

\* ------------------------------------------------------------------- C6

\* A call on the handle of thread t returns in this step.
Returns(t) == ret'[t] /= ret[t]

WaitCalls == {<<<<"waitpid", "0">>>>, <<<<"waitpid", "WNOHANG">>>>}

\* C6, one step: the pid stays; a cached status stays; the cache is filled
\* only by a returning wait, try_wait or try_wait_timeout whose waitpid
\* reaped the child, with that child's status; try_wait on a child that
\* still runs returns "still running" and leaves the cache unset.
C6_Step ==
    \A t \in Threads :
        /\ hd'[t].pid = hd[t].pid
        /\ hd[t].exit_status /= "unset" => hd'[t].exit_status = hd[t].exit_status
        /\ (hd[t].exit_status = "unset" /\ hd'[t].exit_status /= "unset") =>
             /\ ch[t].st = "zombie" /\ ch'[t].st = "reaped"
             /\ hd'[t].exit_status = ch[t].status
             /\ Returns(t)
             /\ ret'[t].op \in {"wait", "try_wait", "try_wait_timeout"}
             /\ ret'[t].sys \in WaitCalls
             /\ ret'[t].tag = "ok" /\ ret'[t].status = ch[t].status
        /\ (Returns(t) /\ ret'[t].op = "try_wait" /\ ch[t].st \in Live) =>
             /\ ret'[t].tag = "running"
             /\ hd'[t].exit_status = "unset"
             /\ ch'[t] = ch[t]

\* C6: the handle of a launched child starts with its pid and no exit
\* status, and every step keeps to C6_Step.
C6_Handle ==
    /\ \A t \in Threads : th[t].pc = "have" =>
          hd[t] = [pid |-> ch[t].pid, exit_status |-> "unset"]
    /\ [][C6_Step]_vars

\* C6 witness: try_wait returned "still running", and the next try_wait
\* reaped the child and filled the cache.
C6_Witness ==
    \E t \in Threads :
        /\ ret[t].op = "try_wait" /\ ret[t].tag = "ok"
        /\ ret[t].pop = "try_wait" /\ ret[t].ptag = "running"
        /\ ret[t].sys = <<<<"waitpid", "WNOHANG">>>>
        /\ hd[t] = [pid |-> Pid(t), exit_status |-> ret[t].status]
        /\ ch[t].st = "reaped"

\* ------------------------------------------------------------------- C7

\* C7, one step that returns from kill: the signal is sent exactly when no
\* exit status is cached.  With a cached status kill returns Ok and makes
\* no system call, so nothing is sent to the pid of a child this handle
\* has reaped.  Without one it returns Ok when the OS accepted the signal
\* and the OS error when it did not.  The handle is left as it was.
C7_Step ==
    \A t \in Threads : (Returns(t) /\ ret'[t].op = "kill") =>
        /\ hd'[t] = hd[t]
        /\ ret'[t].sys = <<>> <=> hd[t].exit_status /= "unset"
        /\ hd[t].exit_status /= "unset" =>
             ret'[t].tag = "ok" /\ ch'[t] = ch[t]
        /\ ch[t].st = "reaped" => ret'[t].sys = <<>>
        /\ hd[t].exit_status = "unset" =>
             \E sig \in Signals :
                 LET k == os_kill(ch[t], sig)
                 IN  /\ ret'[t].sys = <<<<"kill", sig>>>>
                     /\ ch'[t] = k.c
                     /\ IF k.ret = -1
                        THEN ret'[t].tag = "err" /\ ret'[t].code = k.errno
                        ELSE ret'[t].tag = "ok"

C7_Kill == [][C7_Step]_vars

\* C7 witness: kill on a handle whose child was reaped returned Ok without
\* a system call.
C7_Witness ==
    \E t \in Threads :
        /\ ret[t].op = "kill" /\ ret[t].tag = "ok" /\ ret[t].sys = <<>>
        /\ ret[t].pop \in {"wait", "try_wait"} /\ ret[t].ptag = "ok"
        /\ ch[t].st = "reaped" /\ hd[t].exit_status /= "unset"

\* ------------------------------------------------------------------- C8

\* The child of launch t has exited and its status can still be had: it is
\* a zombie, or the handle has cached the status.
Exited(t) == ch[t].st = "zombie" \/ hd[t].exit_status /= "unset"

\* C8, one step: a call on the handle of an exited child never enters the
\* sleep of try_wait_timeout, and try_wait_timeout returns the child's exit
\* status having slept nothing, from the cache when there is one.
C8_Step ==
    \A t \in Threads : (th[t].pc = "have" /\ Exited(t)) =>
        /\ th'[t].pc = "have"
        /\ (Returns(t) /\ ret'[t].op = "try_wait_timeout") =>
             /\ ret'[t].tag = "ok"
             /\ ret'[t].status = ch[t].status
             /\ ret'[t].slept = 0
             /\ hd'[t].exit_status = ch[t].status
             /\ ret'[t].sys = IF hd[t].exit_status /= "unset" THEN <<>>
                              ELSE <<<<"waitpid", "WNOHANG">>>>

C8_NoSleep == [][C8_Step]_vars

\* C8 witness: try_wait_timeout on a child that had exited and was not yet
\* reaped returned its status without a sleep.
C8_Witness ==
    \E t \in Threads :
        /\ th[t].pc = "have"
        /\ ret[t].op = "try_wait_timeout" /\ ret[t].tag = "ok"
        /\ ret[t].slept = 0 /\ ret[t].sys = <<<<"waitpid", "WNOHANG">>>>
        /\ ret[t].status = "exit0" /\ ch[t].st = "reaped"

\* ------------------------------------------------------------------- C9

DropCalls == <<"kill:SIGTERM", "try_wait_timeout", "kill:SIGKILL", "wait">>

\* How many calls Drop for Daemon has made when the thread is at pc.
DropStage(pc) ==
    CASE pc = "have" -> 0
      [] pc \in {"drop_twt", "twt", "twt_final"} -> 1
      [] pc = "drop_kill" -> 2
      [] pc = "drop_wait" -> 3
      [] pc = "dropped" -> 4
      [] OTHER -> 0

Grace == GraceSecs * TicksPerSec

\* C9: Drop for Daemon makes its four calls in order, whatever each
\* returns: kill(SIGTERM), try_wait_timeout that sleeps at most the grace
\* period (all of it when the child still runs at its end), kill(SIGKILL),
\* wait.  SIGKILL goes to the OS exactly when the timed wait did not reap
\* the child.
C9_Teardown ==
    \A t \in Threads :
        LET log == dlog[t]
        IN  /\ Len(log) = DropStage(th[t].pc)
            /\ \A i \in 1..Len(log) : log[i].call = DropCalls[i]
            /\ Len(log) >= 1 => log[1].sys = <<<<"kill", "SIGTERM">>>>
            /\ Len(log) >= 2 =>
                 /\ log[2].slept <= Grace
                 /\ log[2].tag = "running" => log[2].slept = Grace
            /\ Len(log) >= 3 =>
                 /\ log[3].sys = <<>> <=> log[2].tag = "ok"
                 /\ log[2].tag /= "ok" => log[3].sys = <<<<"kill", "SIGKILL">>>>
            /\ Len(log) >= 4 =>
                 log[4].sys = IF log[2].tag = "ok" THEN <<>>
                              ELSE <<<<"waitpid", "0">>>>

\* C9 witness: the teardown is complete although the timed wait, the
\* SIGKILL and the final wait each returned an error.
C9_Witness ==
    \E t \in Threads :
        /\ th[t].pc = "dropped" /\ Len(dlog[t]) = 4
        /\ dlog[t][1].tag = "ok"
        /\ dlog[t][2].tag = "err" /\ dlog[t][2].slept > 0
        /\ dlog[t][3].tag = "err" /\ dlog[t][4].tag = "err"

\* ------------------------------------------------------------------ C10

\* C10: when Drop for Daemon has completed, the child is reaped and its
\* exit status is cached in the handle, whatever the steps returned.
C10_Reaped ==
    \A t \in Threads : th[t].pc = "dropped" =>
        ch[t].st = "reaped" /\ hd[t].exit_status /= "unset"

\* ------------------------------------------------------------------ C11

\* The child of launch t runs try_exec in this step.
RunsTryExec(t) == ch[t].st = "forked" /\ ch'[t].st /= "forked"

\* C11, one step: hygiene and customization in the child of one launch
\* leave the parent's table and the table of every other child as they
\* were, numbers and close-on-exec flags alike.
C11_Step ==
    \A t \in Threads : RunsTryExec(t) =>
        /\ pfd' = pfd
        /\ \A u \in Threads \ {t} : ch'[u] = ch[u]

C11_PrivateTable == [][C11_Step]_vars

\* C11 witness: one child has been through hygiene and customization (its
\* slot is now its own hand-off, without close-on-exec), while the parent
\* and the child of the other launch, not yet through hygiene, still have
\* on the slot what the parent had there.
C11_Witness ==
    \E t, u \in Threads :
        /\ t /= u
        /\ ch[t].st = "failing" /\ ch[u].st = "forked"
        /\ Slot \in DOMAIN pfd /\ pfd[Slot].cx
        /\ ch[t].fds[Slot] /= pfd[Slot] /\ ~ch[t].fds[Slot].cx
        /\ Slot \in DOMAIN ch[u].fds /\ ch[u].fds[Slot] = pfd[Slot]

\* ------------------------------------------------------------------ C12

\* Whether ThreadsAndChildren is enabled.
CanRun == \E t \in Threads : LaunchCanStep(t) \/ ChildCanStep(t)

\* The launches under a scheduler that keeps running the parent's threads
\* and the forked children up to their exec or exit (weak fairness of
\* ThreadsAndChildren); nothing is assumed about what an exec'ed program
\* does.
SpecLive == Spec /\ ([]<>(~CanRun) \/ []<><<ThreadsAndChildren>>_vars)

\* spawn has returned in launch t, with a handle or with the decoded error.
SpawnReturned(t) ==
    \/ OnOkPath(t)
    \/ Forked(t) /\ th[t].pc = "closing" /\ th[t].after = "err"
    \/ Forked(t) /\ res[t].tag = "err"

\* C12, safety: a copy of a launch's error-channel write end is held only
\* by children that have not yet exec'ed or exited, never by an exec'ed
\* program, and not by the parent while it reads.
C12_HeldBeforeExec ==
    \A t \in Threads :
        /\ \A u \in Threads :
             HoldsObj(ch[u].fds, ErrW(t)) => ch[u].st \in {"forked", "failing", "wrote"}
        /\ th[t].pc \in {"read", "spawn_wait"} => ~HoldsObj(pfd, ErrW(t))

\* C12: once fork has occurred, spawn returns, with a handle or with the
\* decoded error, in every interleaving of the launches.
C12_Definite ==
    /\ []C12_HeldBeforeExec
    /\ \A t \in Threads : Forked(t) ~> SpawnReturned(t)

\* C12 witness: the handshake read of one launch is blocked only by the
\* copy of its write end that the child of the other launch inherited: its
\* own child has already exec'ed.
C12_Witness ==
    \E t, u \in Threads :
        /\ t /= u
        /\ th[t].pc = "read" /\ ~ReadExactReady(t)
        /\ ch[t].st = "running"
        /\ ch[u].st = "forked" /\ HoldsObj(ch[u].fds, ErrW(t))

\* ------------------------------------------------------------------ C13

\* The values of the entries of env named `name`, in order.
RECURSIVE ValuesOf(_, _)
ValuesOf(env, name) ==
    IF env = <<>> THEN <<>>
    ELSE (IF Head(env)[1] = name THEN <<Head(env)[2]>> ELSE <<>>)
           \o ValuesOf(Tail(env), name)

\* The entries of env that are neither LISTEN_PID nor LISTEN_FDS.
RECURSIVE Others(_)
Others(env) ==
    IF env = <<>> THEN <<>>
    ELSE (IF Head(env)[1] \notin {"LISTEN_PID", "LISTEN_FDS"}
          THEN <<Head(env)>> ELSE <<>>) \o Others(Tail(env))

\* C13: a dbus-broker child execs with exactly one LISTEN_FDS entry, of
\* value 1, exactly one LISTEN_PID entry, whose value is the child's own
\* pid and not the parent's, with the parent's other variables and nothing
\* else (so none of the parent's LISTEN_PID or LISTEN_FDS), and with the
\* listening socket on descriptor 3 without close-on-exec.
C13_BrokerEnv ==
    \A t \in Threads : (th[t].kind = "broker" /\ ch[t].st = "running") =>
        /\ ValuesOf(ch[t].env, "LISTEN_FDS") = << <<1>> >>
        /\ ValuesOf(ch[t].env, "LISTEN_PID") = << Dec(ch[t].pid) >>
        /\ Dec(ch[t].pid) /= Dec(ParentPid)
        /\ Others(ch[t].env) = Others(penv)
        /\ \A i \in 1..Len(ch[t].env) : ch[t].env[i][1] /= ""
        /\ Slot \in DOMAIN ch[t].fds
        /\ ch[t].fds[Slot] = Entry(Sock(t), FALSE)

\* C13 witness: a broker child runs whose parent had LISTEN_PID (its own
\* pid) and LISTEN_FDS=2 in its environment.
C13_Witness ==
    \E t \in Threads :
        /\ th[t].kind = "broker" /\ ch[t].st = "running"
        /\ ValuesOf(penv, "LISTEN_PID") = << Dec(ParentPid) >>
        /\ ValuesOf(penv, "LISTEN_FDS") = << <<2>> >>
        /\ ch[t].env = << <<"PATH", <<>>>>, <<"LISTEN_FDS", <<1>>>>,
                          <<"LISTEN_PID", Dec(Pid(t))>> >>

\* ------------------------------------------------------------------ C14

ReadOver(t) == OnErrPath(t) \/ OnOkPath(t)

\* C15: when 1 to 3 bytes arrived before end-of-file, the launch neither
\* gets a handle nor returns an error: it does not go on past the read.
C15_PartialIsFatal ==
    \A t \in Threads :
        (Len(errbuf[t]) \in 1..(MsgLen - 1) /\ ~Held(ErrW(t))) =>
            /\ ~ReadOver(t)
            /\ ~OnOkPath(t)
            /\ res[t].tag = "none"

\* ------------------------------------------------------------------ C16

\* What launch t hands to the program on the slot.
HandOff(t) == IF th[t].kind = "daemon" THEN AddrW(t) ELSE Sock(t)

\* The slot of the child of launch t holds the hand-off, inheritable.
SlotReady(t) ==
    Slot \in DOMAIN ch[t].fds /\ ch[t].fds[Slot] = Entry(HandOff(t), FALSE)

\* The number of the step at which the child of launch t stops, 0 when it
\* execs.
StopsAt(t) ==
    CASE th[t].fault = "signals" -> 1
      [] th[t].fault = "hygiene" -> 2
      [] th[t].fault = "pre_exec" -> 3
      [] th[t].prog = "missing" -> 4
      [] OTHER -> 0

\* C16: the child runs signal reset, hygiene, customization and exec in
\* this order, each once, and stops at the first step that fails, holding
\* that step's error.  Hygiene has made everything above the slot
\* close-on-exec before the customization runs; only a customization that
\* ran has put the hand-off on the slot, and at exec the slot is not
\* close-on-exec, so it survives.
C16_ChildOrder ==
    \A t \in Threads : (Forked(t) /\ ch[t].st /= "forked") =>
        LET did == ch[t].did
        IN  /\ did = SubSeq(Steps, 1, Len(did)) /\ Len(did) >= 1
            /\ Len(did) = (IF StopsAt(t) = 0 THEN 4 ELSE StopsAt(t))
            /\ StopsAt(t) = 0 <=> Execed(t)
            /\ StopsAt(t) /= 0 =>
                 /\ ch[t].code /= 0
                 /\ ch[t].code = (IF StopsAt(t) = 4 THEN ENOENT
                                  ELSE FaultErrno(th[t].fault))
            /\ Execed(t) =>
                 /\ Slot \in ch[t].execfds
                 /\ \A n \in ch[t].execfds : n <= Slot
            /\ ch[t].st = "failing" =>
                 /\ Len(did) >= 3 =>
                      \A n \in DOMAIN ch[t].fds : n > Slot => ch[t].fds[n].cx
                 /\ Len(did) = 4 => SlotReady(t)
                 /\ Len(did) <= 3 => ~SlotReady(t)

\* C16 witness: a child whose customization failed after hygiene had run on
\* a table with the parent's own descriptors on 3 and 4: it stopped there,
\* with everything above the slot close-on-exec and the slot not handed
\* off.
C16_Witness ==
    \E t \in Threads :
        /\ ch[t].st = "failing" /\ ch[t].did = <<"signals", "hygiene", "pre_exec">>
        /\ ch[t].code = EINTR
        /\ ch[t].fds[3] = Entry(Extra(3), TRUE)
        /\ ch[t].fds[4] = Entry(Extra(4), TRUE)

\* ------------------------------------------------------------------ C17

\* The child of launch t takes a step of its own.
ChildSteps(t) == ch[t].st \in {"forked", "failing", "wrote"} /\ ch'[t].st /= ch[t].st

\* C17, one step: a step of the child is never a step of the parent's
\* continuation of spawn: the thread, its result, its handle and the
\* parent's descriptors are as they were; and the child only moves from
\* fork to exec or to the failure, from the failure to the written
\* message, and from there to its exit with status 1.
C17_Step ==
    \A t \in Threads : ChildSteps(t) =>
        /\ UNCHANGED <<pfd, th, res, hd, ret, dlog, addrbuf>>
        /\ ch[t].st = "forked" => ch'[t].st \in {"running", "failing"}
        /\ ch[t].st = "failing" =>
             /\ ch'[t].st = "wrote"
             /\ errbuf'[t] = errbuf[t] \o ToNeBytes(ch[t].code)
        /\ ch[t].st = "wrote" =>
             /\ ch'[t].st = "zombie" /\ ch'[t].status = "exit1"
             /\ errbuf' = errbuf

\* C17: a child in which a step before or at exec failed never becomes the
\* program and never returns from spawn; what it leaves on the error
\* channel is the failing step's code as one message of four bytes, and it
\* ends by _exit(1).
C17_Reported ==
    \A t \in Threads : (Forked(t) /\ StopsAt(t) /= 0 /\ ch[t].st /= "forked") =>
        /\ ~Execed(t) /\ ch[t].st /= "running"
        /\ errbuf[t] = (IF ch[t].st = "failing" THEN <<>> ELSE ToNeBytes(ch[t].code))
        /\ ch[t].st \notin Live => ch[t].status = "exit1"
        /\ ~OnOkPath(t)

C17_ChildReports == []C17_Reported /\ [][C17_Step]_vars

\* C17 witness: a child whose hygiene failed has written its four bytes
\* and is gone with status 1, while the parent has not yet read them.
C17_Witness ==
    \E t \in Threads :
        /\ th[t].fault = "hygiene" /\ ch[t].st = "zombie" /\ ch[t].status = "exit1"
        /\ errbuf[t] = ToNeBytes(ENOMEM) /\ th[t].pc /= "spawn_wait"
        /\ ~OnErrPath(t)

\* ------------------------------------------------------------------ C18

\* The numbers of the table on which the write end of launch t's error
\* channel is open.
ErrWAt(tbl, t) == {n \in DOMAIN tbl : tbl[n].obj = ErrW(t)}

\* C18, one step: the duplication puts the write end on a number that was
\* free and is at least 4, with close-on-exec, and changes nothing else.
C18_Step ==
    \A t \in Threads :
        (th[t].pc = "dupfd" /\ th'[t].pc = "closing" /\ th'[t].after = "fork") =>
            /\ th[t].ew <= Slot
            /\ th'[t].ew >= DupMin /\ th'[t].ew \notin DOMAIN pfd
            /\ pfd' = OpenAt(pfd, th'[t].ew, ErrW(t), TRUE)
            /\ th'[t].closeq = <<th[t].ew>>

\* C18: the duplication is made exactly when the write end came out at 3 or
\* lower; when spawn forks, the write end is on one number only, above the
\* slot and close-on-exec, the original being closed; and in the child the
\* write end stays where it was through the customization, which has put
\* the hand-off and not the error channel on the slot.
C18_AboveSlot ==
    \A t \in Threads :
        /\ th[t].pc = "dupfd" => th[t].ew <= Slot
        /\ th[t].pc = "fork" =>
             /\ th[t].ew > Slot
             /\ ErrWAt(pfd, t) = {th[t].ew}
             /\ pfd[th[t].ew].cx
        /\ ch[t].st \in {"forked", "failing"} =>
             /\ th[t].ew > Slot
             /\ ErrWAt(ch[t].fds, t) = {th[t].ew}
             /\ ch[t].fds[th[t].ew].cx

C18_NoCollision == []C18_AboveSlot /\ [][C18_Step]_vars

\* C18 witness: the parent had no descriptor open, the write end came out
\* at 3 and was moved to 4; the child's customization has put the hand-off
\* on the slot and the child, its exec failed, still has the write end on 4.
C18_Witness ==
    \E t \in Threads :
        /\ th[t].er = 2 /\ th[t].ew = DupMin
        /\ ch[t].st = "failing" /\ ch[t].did = Steps
        /\ SlotReady(t)
        /\ ErrWAt(ch[t].fds, t) = {DupMin}

\* ------------------------------------------------------------------ C19

\* C19 as stated: once the handshake read of a launch is over, no process
\* holds the write end of its error channel.
C19_ClosedEverywhere ==
    \A t \in Threads : ReadOver(t) => ~Held(ErrW(t))

\* The launch has a handle in hand or has returned one.
HasHandle(t) == th[t].pc = "have" \/ res[t].tag = "ok"

\* C19, amended: the parent holds no copy of the write end while it reads.
\* A read that ended at end-of-file found the write end closed everywhere,
\* and the child has exec'ed.  A read that ended with four bytes found
\* exactly the child's one message; copies of the write end are then held
\* at most by that child until it exits and by children of other launches
\* that have neither exec'ed nor exited yet.  A handle is returned only
\* after the exec.
C19_WriteEndClosed ==
    \A t \in Threads :
        /\ th[t].pc = "read" => ~HoldsObj(pfd, ErrW(t))
        /\ OnOkPath(t) => ~Held(ErrW(t)) /\ Execed(t)
        /\ OnErrPath(t) =>
             /\ errbuf[t] = ToNeBytes(ch[t].code) /\ ~Execed(t)
             /\ ~HoldsObj(pfd, ErrW(t))
             /\ ch[t].st \in {"wrote", "zombie", "reaped"}
             /\ \A u \in Threads :
                  (ch[u].st \in Live /\ HoldsObj(ch[u].fds, ErrW(t))) =>
                      IF u = t THEN ch[u].st = "wrote"
                      ELSE ch[u].st \in {"forked", "failing", "wrote"}
        /\ HasHandle(t) => Execed(t)

\* C19 witness: the read of one launch has ended with the four bytes while
\* its child, not yet gone, and the child of the other launch, not yet
\* through exec, both hold the write end.
C19_Witness ==
    \E t, u \in Threads :
        /\ t /= u /\ th[t].pc = "spawn_wait"
        /\ ch[t].st = "wrote" /\ HoldsObj(ch[t].fds, ErrW(t))
        /\ ch[u].st = "forked" /\ HoldsObj(ch[u].fds, ErrW(t))

\* ------------------------------------------------------------------ C20

\* The numbers of [min, limit), lowest first.
InRange(min) ==
    IF min < get_fd_limit THEN Batch(min, get_fd_limit - min) ELSE <<>>

RECURSIVE Sum(_)
Sum(q) == IF q = <<>> THEN 0 ELSE Head(q) + Sum(Tail(q))

\* C20: close_on_exec_from(min) probes the numbers of [min, limit) once
\* each, in batches that are all of the full size but possibly the last,
\* which is shorter; it sets close-on-exec on every open descriptor of the
\* range and leaves every other descriptor and every closed number as they
\* were; and the one-at-a-time build gives the same result and table.
C20_Batched ==
    /\ "batched" \in hyg.ran =>
         LET o == hyg.out
             b == o.batches
         IN  /\ o.ok
             /\ o.probes = InRange(hyg.min)
             /\ Sum(b) = Len(o.probes)
             /\ \A k \in 1..Len(b) :
                  /\ b[k] \in 1..PollBatch
                  /\ k < Len(b) => b[k] = PollBatch
             /\ DOMAIN o.tbl = DOMAIN hyg.tbl
             /\ \A n \in DOMAIN hyg.tbl :
                  o.tbl[n] = IF n >= hyg.min /\ n < get_fd_limit
                             THEN Entry(hyg.tbl[n].obj, TRUE)
                             ELSE hyg.tbl[n]
    /\ hyg.ran = {"batched", "linear"} =>
         /\ hyg.out.ok = hyg.lin.ok /\ hyg.out.errno = hyg.lin.errno
         /\ hyg.out.tbl = hyg.lin.tbl
         /\ hyg.out.probes = hyg.lin.probes

\* C20 witness: from 1 the range takes two full batches and a shorter last
\* one; an inheritable descriptor of the last batch is now close-on-exec, a
\* closed number of the range is still closed, descriptor 0 and the one at
\* the limit are as they were, and the linear build agrees.
C20_Witness ==
    /\ hyg.ran = {"batched", "linear"} /\ hyg.min = 1
    /\ Len(hyg.out.batches) >= 2
    /\ hyg.out.batches[Len(hyg.out.batches)] < PollBatch
    /\ (get_fd_limit - 1) \in DOMAIN hyg.tbl
    /\ ~hyg.tbl[get_fd_limit - 1].cx /\ hyg.out.tbl[get_fd_limit - 1].cx
    /\ 2 \notin DOMAIN hyg.out.tbl
    /\ 0 \in DOMAIN hyg.tbl /\ ~hyg.out.tbl[0].cx
    /\ get_fd_limit \in DOMAIN hyg.tbl /\ ~hyg.out.tbl[get_fd_limit].cx
    /\ hyg.lin.tbl = hyg.out.tbl

\* ------------------------------------------------------------------ C21

\* C21: a descriptor that the probe found open and that is closed by the
\* time its flag is set is ignored: the call succeeds, and every other
\* open descriptor of the range is close-on-exec.
C21_RaceIgnored ==
    (hyg.stage = "raced" /\ "batched" \in hyg.ran) =>
        /\ hyg.out.ok
        /\ \A n \in DOMAIN hyg.tbl \ hyg.gone :
             (n >= hyg.min /\ n < get_fd_limit) =>
                 n \in DOMAIN hyg.out.tbl /\ hyg.out.tbl[n].cx

\* ------------------------------------------------------------------ C22

\* The decoded code is the code whose four bytes are on the channel, and
\* it is the code of the returned error.
C22_Decoded ==
    \A t \in Threads : OnErrPath(t) =>
        /\ Len(errbuf[t]) = MsgLen /\ ToNeBytes(th[t].err) = errbuf[t]
        /\ res[t].tag = "err" => res[t].code = th[t].err

StillRunning(t) == hd[t].exit_status = "unset" /\ ch[t].st \in Live

\* One turn of the loop of try_wait_timeout with `left` remaining and
\* `slept` slept so far: a child that has exited ends the call at once with
\* its status and no further sleep; a child that runs makes the call sleep
\* one second if one is left, and otherwise what is left before the final
\* poll.  What is left and what was slept add up to the same in both.
C23_Turn(t, left, slept) ==
    /\ Exited(t) =>
         /\ th'[t].pc = "have" /\ Returns(t)
         /\ ret'[t].op = "try_wait_timeout" /\ ret'[t].tag = "ok"
         /\ ret'[t].status = hd'[t].exit_status
         /\ ret'[t].slept = slept
    /\ StillRunning(t) =>
         /\ ~Returns(t)
         /\ th'[t].left + th'[t].slept = left + slept
         /\ IF left >= TicksPerSec
            THEN th'[t].pc = "twt" /\ th'[t].slept = slept + TicksPerSec
            ELSE th'[t].pc = "twt_final" /\ th'[t].slept = slept + left

C23_Step ==
    \A t \in Threads :
        /\ \A d \in 0..MaxTimeout : CallTryWaitTimeout(t, d) => C23_Turn(t, d, 0)
        /\ (th[t].pc = "twt" /\ th'[t] /= th[t]) =>
             C23_Turn(t, th[t].left, th[t].slept)
        /\ (th[t].pc = "twt_final" /\ th'[t] /= th[t]) =>
             /\ th'[t].pc = "have" /\ Returns(t)
             /\ ret'[t].op = "try_wait_timeout" /\ ret'[t].slept = th[t].slept
             /\ StillRunning(t) => ret'[t].tag = "running"
             /\ Exited(t) => ret'[t].tag = "ok"
        /\ (Returns(t) /\ ret'[t].op = "try_wait_timeout"
                /\ ret'[t].tag = "running") =>
             th[t].pc = "twt_final" /\ th[t].left = 0

\* Inside the call, what was slept and what is left never exceed a
\* timeout, and nothing is left at the final poll.
C23_Within ==
    \A t \in Threads :
        /\ InTimedWait(t) =>
             /\ th[t].slept >= 0 /\ th[t].left >= 0
             /\ th[t].slept + th[t].left <= MaxTimeout
             /\ th[t].pc = "twt_final" => th[t].left = 0
        /\ ret[t].op = "try_wait_timeout" => ret[t].slept \in 0..MaxTimeout

\* C23: try_wait_timeout(d) polls, sleeps a second while a second is left,
\* then the rest, then polls a last time; it has slept at most d in all,
\* returns a status at the first poll that finds the child exited, returns
\* "still running" only from the final poll with all of d slept; and it
\* returns.
C23_TimedWait ==
    /\ []C23_Within
    /\ [][C23_Step]_vars
    /\ \A t \in Threads : InTimedWait(t) ~> (th[t].pc = "have")

\* C23 witness: a call with the longest timeout, a second and a part of a
\* second, returned "still running" with all of it slept.
C23_Witness ==
    \E t \in Threads :
        /\ th[t].pc = "have" /\ ret[t].op = "try_wait_timeout"
        /\ ret[t].tag = "running" /\ ret[t].slept = MaxTimeout
        /\ MaxTimeout > TicksPerSec
        /\ ch[t].st = "running"

\* ------------------------------------------------------------------ C24

\* An end of an address channel or of an error channel (the duplicate of a
\* write end is the same open file description).
CoreMade(obj) == obj[1] \in {"addr", "err"}

\* C24 as stated: at every point every descriptor of the parent that the
\* core created is close-on-exec.
C24_AlwaysCloexec ==
    \A n \in DOMAIN pfd : CoreMade(pfd[n].obj) => pfd[n].cx

\* The descriptors a thread has got from pipe() and not yet flagged.
Unflagged(t) ==
    IF th[t].pc = "flagging"
    THEN {th[t].closeq[k] : k \in 1..Len(th[t].closeq)} ELSE {}

\* In the parent, a descriptor that the core created is close-on-exec
\* unless its Pipe::new is still between pipe() and set_close_on_exec.
C24_CloexecButWindow ==
    \A n \in DOMAIN pfd :
        (CoreMade(pfd[n].obj) /\ ~pfd[n].cx) => \E t \in Threads : n \in Unflagged(t)

\* No step clears the flag of a descriptor of the parent, and in a forked
\* child only the slot becomes inheritable.
C24_Cleared ==
    /\ \A n \in DOMAIN pfd \cap DOMAIN pfd' :
         (pfd[n].obj = pfd'[n].obj /\ pfd[n].cx) => pfd'[n].cx
    /\ \A t \in Threads : ch[t].st /= "none" =>
         \A n \in DOMAIN ch'[t].fds :
            (/\ ~ch'[t].fds[n].cx
             /\ n \in DOMAIN ch[t].fds => ch[t].fds[n] /= ch'[t].fds[n]) =>
                n = Slot /\ ch[t].st = "forked"

\* C24, amended: close-on-exec on every descriptor of the core in the
\* parent outside the window of a Pipe::new that has no atomic primitive,
\* and the flag cleared on the slot of a child only.
C24_Cloexec == []C24_CloexecButWindow /\ [][C24_Cleared]_vars

\* C24 witness: a thread forked while the Pipe::new of the other was in its
\* window, and the child has inherited an end of the other launch's
\* channel that is not close-on-exec.
C24_Witness ==
    \E t, u \in Threads :
        /\ t /= u /\ th[t].pc = "flagging" /\ ch[u].st = "forked"
        /\ \E n \in Unflagged(t) :
             /\ n \in DOMAIN pfd /\ ~pfd[n].cx /\ CoreMade(pfd[n].obj)
             /\ n \in DOMAIN ch[u].fds /\ ch[u].fds[n] = pfd[n]

\* ------------------------------------------------------------------ C25

\* An end of the channels of launch t.
OwnObj(t) == {AddrR(t), AddrW(t), ErrR(t), ErrW(t), Sock(t)}

\* A Pipe that is dropped closes a descriptor that is open and is its own:
\* no number is closed twice, and none that belongs to someone else.
C25_DropsOwn ==
    \A t \in Threads : (th[t].pc = "closing" /\ th'[t] /= th[t]) =>
        LET n == Head(th[t].closeq)
        IN  /\ n \in DOMAIN pfd /\ pfd[n].obj \in OwnObj(t)
            /\ pfd' = CloseFd(pfd, n)

\* Once a thread is through, none of its Pipes is left open, except one
\* handed out by into_raw_fd, which is open.
C25_Released ==
    \A t \in Threads :
        /\ th[t].pc = "done" =>
             \A n \in DOMAIN pfd :
                 pfd[n].obj \in OwnObj(t) =>
                     ret[t].op = "into_raw_fd" /\ ret[t].code = n
        /\ ret[t].op = "into_raw_fd" =>
             ret[t].code \in DOMAIN pfd /\ pfd[ret[t].code].obj = AddrR(t)

\* C25: every descriptor owned by a Pipe is closed once, not twice and not
\* never, and a descriptor handed out by into_raw_fd is still open and is
\* not closed by the Pipe.
C25_ClosedOnce == []C25_Released /\ [][C25_DropsOwn]_vars

\* ------------------------------------------------------------------ C26

\* C26: a launch that returns an error after its child was forked, the
\* decoded exec error or the empty-address error, has reaped the child.
C26_ErrorReaps ==
    \A t \in Threads :
        (Forked(t) /\ res[t].tag \in {"err", "other"}) => ch[t].st = "reaped"

\* The part of it about the exec error alone.
C26_ExecErrorReaps ==
    \A t \in Threads : (Forked(t) /\ res[t].tag = "err") => ch[t].st = "reaped"

\* ------------------------------------------------------------------ C27

\* C27: whatever soft limit the OS reports, after hygiene no descriptor
\* numbered min or higher is open without close-on-exec.
C27_LimitCovers ==
    /\ "batched" \in hyg.ran =>
         /\ hyg.out.ok
         /\ \A n \in DOMAIN hyg.out.tbl : n >= hyg.min => hyg.out.tbl[n].cx
    /\ "linear" \in hyg.ran =>
         \A n \in DOMAIN hyg.lin.tbl : n >= hyg.min => hyg.lin.tbl[n].cx

\* The same for the limits that are within c_int.
C27_FittingLimit == FitsCInt(hyg.rlim) => C27_LimitCovers

\* --------------------------------------------------- escape_path on its own

\* The largest u8.  A path is a sequence of bytes; a String is written here
\* as the sequence of the codes of its characters.
ByteMax == 255
Bytes == 0..ByteMax

\* The longest path of the paths tried.
MaxPathLen == 2

\* The first arm of the match in escape_path:
\* '-', '0'..='9', 'A'..='Z', 'a'..='z', '_', '/', '.', '\'.
SafeByte(b) ==
    \/ b = 45
    \/ b \in 48..57
    \/ b \in 65..90
    \/ b \in 97..122
    \/ b = 95
    \/ b = 47
    \/ b = 46
    \/ b = 92

\* The character of one hexadecimal digit, lower case.
HexChar(d) == IF d < 10 THEN 48 + d ELSE 87 + d

\* fmt::LowerHex for u8: the digits of b in base 16, no leading zero.
LowerHex(b) ==
    IF b < 16 THEN <<HexChar(b)>> ELSE <<HexChar(b \div 16), HexChar(b % 16)>>

\* A width without the 0 flag: numbers are right-aligned, filled with ' '.
RECURSIVE PadSpaces(_, _)
PadSpaces(s, width) ==
    IF Len(s) >= width THEN s ELSE PadSpaces(<<32>> \o s, width)

\* write!(&mut escaped, "%{0:2x}", b)
WriteEscaped(b) == <<37>> \o PadSpaces(LowerHex(b), 2)

\* lib.rs escape_path, byte by byte.
RECURSIVE escape_path(_)
escape_path(path) ==
    IF path = <<>> THEN <<>>
    ELSE (IF SafeByte(Head(path)) THEN <<Head(path)>>
          ELSE WriteEscaped(Head(path)))
         \o escape_path(Tail(path))

Paths == UNION {[1..n -> Bytes] : n \in 0..MaxPathLen}

InitEscape ==
    /\ pfd = StdTable
    /\ th = [t \in Threads |-> IdleThread]
    /\ res = [t \in Threads |-> NoResult]
    /\ hd = [t \in Threads |-> NoHandle]
    /\ ch = [t \in Threads |-> NoChild]
    /\ errbuf = [t \in Threads |-> <<>>]
    /\ addrbuf = [t \in Threads |-> <<>>]
    /\ faults = FALSE
    /\ penv = <<>>
    /\ hyg = NoHyg
    /\ ret = [t \in Threads |-> NoRet]
    /\ dlog = [t \in Threads |-> <<>>]
    /\ \E path \in Paths : esc = [NoEsc EXCEPT !.stage = "called", !.path = path]

EscapePath ==
    /\ esc.stage = "called"
    /\ esc' = [esc EXCEPT !.stage = "done", !.out = escape_path(esc.path)]
    /\ UNCHANGED <<pfd, th, res, hd, ch, errbuf, addrbuf, faults, penv, hyg, ret, dlog>>

NextEscape == EscapePath

SpecEscape == InitEscape /\ [][NextEscape]_vars

\* ------------------------------------------------------------------ C28

IsHexChar(c) == c \in 48..57 \/ c \in 97..102 \/ c \in 65..70

\* What the escaping of one byte is to be: the byte itself when safe, else
\* '%' and the two hexadecimal digits of the byte.
Escaped(b) ==
    IF SafeByte(b) THEN <<b>>
    ELSE <<37, HexChar(b \div 16), HexChar(b % 16)>>

RECURSIVE EscapedAll(_)
EscapedAll(path) ==
    IF path = <<>> THEN <<>> ELSE Escaped(Head(path)) \o EscapedAll(Tail(path))

\* C28: escape_path copies every safe byte and writes every other byte as
\* '%' and exactly two hexadecimal digits; the output holds only safe
\* characters, '%' and hexadecimal digits; a path of safe bytes comes back
\* unchanged.
C28_Escape ==
    esc.stage = "done" =>
        /\ esc.out = EscapedAll(esc.path)
        /\ \A i \in 1..Len(esc.out) :
             SafeByte(esc.out[i]) \/ esc.out[i] = 37 \/ IsHexChar(esc.out[i])
        /\ (\A i \in 1..Len(esc.path) : SafeByte(esc.path[i])) => esc.out = esc.path

\* The same for paths whose unsafe bytes are all 0x10 or more.
C28_TwoDigitBytes ==
    (\A i \in 1..Len(esc.path) : SafeByte(esc.path[i]) \/ esc.path[i] >= 16) =>
        C28_Escape

====
